---- MODULE Spec2Model ----
(***************************************************************************)
(* State machine of the AccessAid application state store (AppContext),    *)
(* its three asynchronous effects (loadData, loadUserReminders, saveData)  *)
(* over AsyncStorage, the login screen handlers and the speech call sites. *)
(*                                                                         *)
(* Conventions.  An optional value (User | null, a storage key that may be *)
(* absent) is a sequence of length 0 or 1.  A storage key holds the JSON   *)
(* text of a value: <<v>> is the text JSON.stringify(v), JSONparse reads   *)
(* it back, and a key listed in storage.malformed holds text that makes    *)
(* JSON.parse throw.  voiceSpeed is counted in tenths (1.0 is 10).  Strings*)
(* the code lowercases, trims or matches (emails, PINs) are sequences of   *)
(* characters.  An async function is a record with the await it is         *)
(* suspended at; the storage operation of that await takes effect, and the *)
(* function runs on to its next await, in one step.  Steps of different    *)
(* async functions interleave freely.  The dispatches one synchronous block*)
(* makes are reduced in order and rendered once (React batching).          *)
(***************************************************************************)
EXTENDS Integers, Sequences, FiniteSets, TLC

\* ------------------------------------------------------------------ bounds

\* handler invocations by the user (taps on the screens) in one behaviour
MaxOps == 3
\* saveData runs that may be suspended at the same time
MaxSaves == 3
\* loadUserReminders runs that may be suspended at the same time
MaxLoads == 2
\* the largest reading of Date.now(): accounts that can exist
MaxId == 3
\* dispatches in one behaviour of the reducer specification
MaxDispatch == 5
\* calls to voiceManager and screen mounts per behaviour
MaxVoice == 5
\* storage calls that fail per behaviour
MaxFaults == 2

\* ------------------------------------------------------------------ values

NULL == <<>>
Some(v) == <<v>>
Undefined == "undefined"

\* user ids are Date.now() readings (LoginScreen.tsx:154): numbers
Ids == 1..MaxId

\* emails and PINs as the characters the code tests
EmailA == <<"a", "@", "b", ".", "c">>
EmailAUpper == <<"A", "@", "b", ".", "c">>
EmailB == <<"b", "@", "b", ".", "c">>
EmailASpaced == <<" ", "a", "@", "b", ".", "c">>
EmailNoAt == <<"a", ".", "c">>
EmailC == <<"c", "@", "b", ".", "c">>
PinA == <<1, 2, 3, 4>>
PinB == <<0, 0, 0, 0>>
PinShort == <<1, 2, 3>>

User(id, email, pin, name, joinDate) ==
  [id |-> id, email |-> email, pin |-> pin, name |-> name,
   joinDate |-> joinDate, profilePhoto |-> Undefined]

UserA == User(1, EmailA, PinA, "Ann", "d0")
\* an account as handleSignUp writes it to the directory: no joinDate yet
UserB == User(2, EmailB, PinB, "Bob", Undefined)
UserANoDate == User(1, EmailA, PinA, "Ann", Undefined)

\* owner is auxiliary: the id of the user the reminder was created for.  The
\* code never reads it; the properties use it to say whose a reminder is.
Reminder(id, owner, done) == [id |-> id, owner |-> owner, isCompleted |-> done]

RemA == Reminder("r1", 1, FALSE)
RemB == Reminder("r2", 2, FALSE)

initialState ==
  [user |-> NULL,
   isLoggedIn |-> FALSE,
   hasCompletedSetup |-> FALSE,
   accessibilitySettings |->
     [brightness |-> 50, textZoom |-> 100, voiceSpeed |-> 10, isDarkMode |-> FALSE],
   isVoiceEnabled |-> FALSE,
   voiceAnnouncementsEnabled |-> TRUE,
   reminders |-> <<>>]

\* ------------------------------------------------------------------ reducer

\* { ...a, ...b } where b holds the fields fs
Merge(a, b, fs) == [f \in DOMAIN a |-> IF f \in fs THEN b[f] ELSE a[f]]

SeqMap(s, F(_)) == [i \in DOMAIN s |-> F(s[i])]

\* a LOGIN that would also empty the reminders
ReduceLoginClearingReminders(s, u) ==
  [s EXCEPT !.user = Some(u), !.isLoggedIn = TRUE, !.reminders = <<>>]

ReduceLogin(s, u) == [s EXCEPT !.user = Some(u), !.isLoggedIn = TRUE]

ReduceUpdateUser(s, p, fs) ==
  [s EXCEPT !.user = IF s.user # NULL THEN Some(Merge(s.user[1], p, fs)) ELSE s.user]

\* a LOGOUT that would clear the session and keep the settings
ReduceLogoutKeepingSettings(s) ==
  [initialState EXCEPT !.accessibilitySettings = s.accessibilitySettings]

\* a LOGOUT that would reset every field except the user
ReduceLogoutKeepingUser(s) == [initialState EXCEPT !.user = s.user]

ReduceLogout(s) == initialState

ReduceCompleteSetup(s) == [s EXCEPT !.hasCompletedSetup = TRUE]

ReduceUpdateSettings(s, p, fs) ==
  [s EXCEPT !.accessibilitySettings = Merge(s.accessibilitySettings, p, fs)]

ReduceToggleVoice(s, b) == [s EXCEPT !.isVoiceEnabled = b]

ReduceToggleAnnouncements(s, b) == [s EXCEPT !.voiceAnnouncementsEnabled = b]

ReduceAddReminder(s, r) == [s EXCEPT !.reminders = Append(s.reminders, r)]

\* an UPDATE_REMINDER that would append a reminder it does not find
ReduceUpdateReminderUpsert(s, r) ==
  LET Repl(x) == IF x.id = r.id THEN r ELSE x
  IN IF \E i \in DOMAIN s.reminders : s.reminders[i].id = r.id
     THEN [s EXCEPT !.reminders = SeqMap(s.reminders, Repl)]
     ELSE [s EXCEPT !.reminders = Append(s.reminders, r)]

ReduceUpdateReminder(s, r) ==
  LET Repl(x) == IF x.id = r.id THEN r ELSE x
  IN [s EXCEPT !.reminders = SeqMap(s.reminders, Repl)]

ReduceDeleteReminder(s, id) ==
  LET Keep(x) == x.id # id
  IN [s EXCEPT !.reminders = SelectSeq(s.reminders, Keep)]

\* a TOGGLE_REMINDER that would mark the reminder completed
ReduceToggleReminderCompleting(s, id) ==
  LET Done(x) == IF x.id = id THEN [x EXCEPT !.isCompleted = TRUE] ELSE x
  IN [s EXCEPT !.reminders = SeqMap(s.reminders, Done)]

ReduceToggleReminder(s, id) ==
  LET Flip(x) == IF x.id = id THEN [x EXCEPT !.isCompleted = ~x.isCompleted] ELSE x
  IN [s EXCEPT !.reminders = SeqMap(s.reminders, Flip)]

ReduceLoadData(s, p, fs) == Merge(s, p, fs)

ReduceSetReminders(s, list) == [s EXCEPT !.reminders = list]

\* appReducer: an action is [type, payload, fields]; fields names the keys a
\* partial payload holds.
appReducer(s, a) ==
  CASE a.type = "LOGIN" -> ReduceLogin(s, a.payload)
    [] a.type = "UPDATE_USER" -> ReduceUpdateUser(s, a.payload, a.fields)
    [] a.type = "LOGOUT" -> ReduceLogout(s)
    [] a.type = "COMPLETE_SETUP" -> ReduceCompleteSetup(s)
    [] a.type = "UPDATE_ACCESSIBILITY_SETTINGS" -> ReduceUpdateSettings(s, a.payload, a.fields)
    [] a.type = "TOGGLE_VOICE" -> ReduceToggleVoice(s, a.payload)
    [] a.type = "TOGGLE_VOICE_ANNOUNCEMENTS" -> ReduceToggleAnnouncements(s, a.payload)
    [] a.type = "ADD_REMINDER" -> ReduceAddReminder(s, a.payload)
    [] a.type = "UPDATE_REMINDER" -> ReduceUpdateReminder(s, a.payload)
    [] a.type = "DELETE_REMINDER" -> ReduceDeleteReminder(s, a.payload)
    [] a.type = "TOGGLE_REMINDER" -> ReduceToggleReminder(s, a.payload)
    [] a.type = "LOAD_DATA" -> ReduceLoadData(s, a.payload, a.fields)
    [] a.type = "SET_REMINDERS" -> ReduceSetReminders(s, a.payload)
    [] OTHER -> s

Action(type, payload) == [type |-> type, payload |-> payload, fields |-> {}]
Partial(type, payload, fields) == [type |-> type, payload |-> payload, fields |-> fields]

\* ------------------------------------------------------------------ state

VARIABLES
  state,      \* the AppState held by useReducer
  storage,    \* AsyncStorage: the persisted keys
  loader,     \* the loadData run of the mount effect
  loads,      \* suspended loadUserReminders runs, oldest first
  saves,      \* suspended saveData runs, oldest first
  auth,       \* the LoginScreen handler in flight (handleLogin / handleSignUp)
  speech,     \* the last call of Speech.speak: screen and rate (tenths)
  clock,      \* Date.now(), the id of the next account
  nops,       \* handler invocations so far
  tick,       \* storage calls issued so far; 0 when storage keeps no order
  last,       \* auxiliary: the last action reduced, and whether its id matched
  launch,     \* auxiliary: what storage held when the process started
  ocr,        \* the last call of extractTextWithOCRSpace: its payload
  voice,      \* voiceManager and the screens that registered commands with it
  faults      \* auxiliary: the storage calls that failed, oldest first

vars == <<state, storage, loader, loads, saves, auth, speech, clock, nops, tick, last,
          launch, ocr, voice, faults>>

\* ------------------------------------------------------------------ AsyncStorage

StorageKeys == {"user", "users", "accessibilitySettings", "hasCompletedSetup"}

emptyStorage ==
  [user |-> NULL, users |-> NULL, accessibilitySettings |-> NULL,
   hasCompletedSetup |-> NULL, reminders |-> [i \in Ids |-> NULL],
   malformed |-> {}]

\* getItem: the text under the key (NULL when absent) and whether it parses
getItem(st, k) == [v |-> st[k], bad |-> k \in st.malformed]
NoData == [v |-> NULL, bad |-> FALSE]

\* setItem(k, JSON.stringify(v))
setItem(st, k, v) == [st EXCEPT ![k] = Some(v), !.malformed = @ \ {k}]

\* setItem(`reminders_${id}`, JSON.stringify(list))
setReminders(st, id, list) == [st EXCEPT !.reminders[id] = Some(list)]

\* ------------------------------------------------------------------ order of storage calls

\* Every suspended async function waits for one storage call, and holds the
\* ticket t that call was issued with.  When tick is 0 storage completes
\* pending calls in any order and every ticket is 0.  Otherwise storage
\* completes them in the order they were issued (a serial queue): the call
\* with the least ticket is the next to return.
Ticket(k) == IF tick = 0 THEN 0 ELSE tick + k
Issued(n) == IF tick = 0 THEN 0 ELSE tick + n

PendingTickets ==
  {loads[i].t : i \in DOMAIN loads} \cup {saves[i].t : i \in DOMAIN saves}
  \cup (IF loader.pc \in {"getUser", "getSettings", "getSetup", "setUser"}
        THEN {loader.t} ELSE {})
  \cup (IF auth.pc # "idle" THEN {auth.t} ELSE {})

Returns(t) == \A u \in PendingTickets : t <= u

\* ------------------------------------------------------------------ effects

\* does the action give state.user a new identity (dependency of both effects)
UserDep(s, a) ==
  \/ a.type = "LOGIN"
  \/ a.type = "UPDATE_USER" /\ s.user # NULL
  \/ a.type = "LOGOUT" /\ s.user # NULL

\* does the action change a dependency of the saveData effect.  Objects and
\* arrays are compared by identity: every reducer case below builds a new one.
\* LOGOUT puts back the objects of initialState.
SaveDep(s, a) ==
  \/ UserDep(s, a)
  \/ a.type \in {"UPDATE_ACCESSIBILITY_SETTINGS", "ADD_REMINDER", "UPDATE_REMINDER",
                 "DELETE_REMINDER", "TOGGLE_REMINDER", "SET_REMINDERS"}
  \/ a.type = "COMPLETE_SETUP" /\ ~s.hasCompletedSetup
  \/ a.type = "LOAD_DATA" /\ "hasCompletedSetup" \in a.fields
       /\ a.payload.hasCompletedSetup # s.hasCompletedSetup
  \/ a.type = "LOGOUT" /\ s # initialState

RECURSIVE Reduce(_, _)
Reduce(s, as) ==
  IF Len(as) = 0 THEN s ELSE Reduce(appReducer(s, Head(as)), Tail(as))

RECURSIVE AnyUserDep(_, _)
AnyUserDep(s, as) ==
  IF Len(as) = 0 THEN FALSE
  ELSE UserDep(s, Head(as)) \/ AnyUserDep(appReducer(s, Head(as)), Tail(as))

RECURSIVE AnySaveDep(_, _)
AnySaveDep(s, as) ==
  IF Len(as) = 0 THEN FALSE
  ELSE SaveDep(s, Head(as)) \/ AnySaveDep(appReducer(s, Head(as)), Tail(as))

\* ids of a reminder list
ReminderIds(list) == {list[i].id : i \in DOMAIN list}

\* auxiliary record of an action: its type, and for the actions that name a
\* reminder whether that id was in the list
Label(s, a) ==
  [type |-> a.type,
   action |-> a,
   prev |-> s,
   hit |-> CASE a.type \in {"DELETE_REMINDER", "TOGGLE_REMINDER"} ->
                  a.payload \in ReminderIds(s.reminders)
             [] a.type = "UPDATE_REMINDER" -> a.payload.id \in ReminderIds(s.reminders)
             [] OTHER -> TRUE]

noAction ==
  [type |-> "none", action |-> [type |-> "none", payload |-> <<>>, fields |-> {}],
   prev |-> initialState, hit |-> TRUE]

\* of a batch: the last action, with the state before the batch
LastOf(s, as) ==
  IF Len(as) = 0 THEN last
  ELSE [Label(Reduce(s, SubSeq(as, 1, Len(as) - 1)), as[Len(as)]) EXCEPT !.prev = s]

\* saveData called by the effect: runs to its first await
StartSave(s, t) ==
  [t |-> t,
   user |-> s.user,
   accessibilitySettings |-> s.accessibilitySettings,
   hasCompletedSetup |-> s.hasCompletedSetup,
   reminders |-> s.reminders,
   users |-> <<>>,
   pc |-> IF s.user # NULL THEN "setUser" ELSE "setSettings"]

\* The render after a batch of dispatches, and its effects in the order the
\* component declares them: loadUserReminders (dependency state.user), then
\* saveData.  loadUserReminders with no user dispatches SET_REMINDERS([])
\* from inside the effect: one more render, whose saveData effect runs too.
\* k storage calls were issued by the caller before the render.
RenderAfter(as, k) ==
  LET s2 == Reduce(state, as)
      uc == AnyUserDep(state, as)
      sc == AnySaveDep(state, as)
      cleared == uc /\ s2.user = NULL
      s3 == IF cleared THEN appReducer(s2, Action("SET_REMINDERS", <<>>)) ELSE s2
      nl == IF uc /\ s2.user # NULL THEN 1 ELSE 0
      ns == IF sc THEN 1 ELSE 0
      nc == IF cleared THEN 1 ELSE 0
  IN /\ state' = s3
     /\ last' = LastOf(state, as)
     /\ loads' = IF nl = 1
                 THEN Append(loads, [id |-> s2.user[1].id, t |-> Ticket(k)])
                 ELSE loads
     /\ saves' = saves \o (IF sc THEN <<StartSave(s2, Ticket(k + nl))>> ELSE <<>>)
                       \o (IF cleared THEN <<StartSave(s3, Ticket(k + nl + ns))>> ELSE <<>>)
     /\ tick' = Issued(k + nl + ns + nc)

Render(as) == RenderAfter(as, 0)

\* ------------------------------------------------------------------ start-up

idleLoader ==
  [t |-> 0, pc |-> "unmounted", userData |-> NoData, settingsData |-> NoData, setupData |-> NoData]

idleAuth ==
  [t |-> 0, pc |-> "idle", kind |-> "none", email |-> <<>>, pin |-> <<>>, name |-> "", users |-> <<>>,
   user |-> NULL, closure |-> initialState, outcome |-> "none"]

\* voiceManager: its registry and listening flag; the screens mounted, their
\* local state and the state their command actions closed over; auxiliary:
\* the last call made to voiceManager and what it did. Of the home screen
\* also: whether ExpoSpeechRecognitionModule was loaded, isVoiceInputMode,
\* where handleVoiceInput is, the last alert, ttsText (a text is the
\* sequence of its words), ttsText as the commands closed over it, and the
\* text last handed to speakText by the read text command
idleVoice ==
  [commands |-> <<>>, isListening |-> FALSE,
   home |-> FALSE, homeListening |-> FALSE, homeClosure |-> initialState,
   profile |-> FALSE, isEditingProfile |-> FALSE, profileClosure |-> initialState,
   event |-> "none", heard |-> <<>>, wasListening |-> FALSE, invoked |-> <<>>,
   added |-> <<>>, overwritten |-> <<>>, events |-> 0,
   recognition |-> TRUE, isVoiceInputMode |-> FALSE, input |-> "idle",
   alert |-> "none", ttsText |-> <<>>, ttsClosure |-> <<>>, spoken |-> <<>>]

noSpeech == [site |-> "none", rate |-> 0]

\* AppProvider mounts: the first render is of initialState and every effect
\* runs: loadData to its first await, loadUserReminders (no user: it
\* dispatches SET_REMINDERS([])), saveData to its first await; then the
\* render of SET_REMINDERS([]) runs saveData again.
Mount ==
  /\ loader.pc = "unmounted"
  /\ loader' = [loader EXCEPT !.pc = "getUser", !.t = Ticket(0)]
  /\ state' = appReducer(state, Action("SET_REMINDERS", <<>>))
  /\ saves' = saves \o <<StartSave(state, Ticket(1)), StartSave(state', Ticket(2))>>
  /\ tick' = Issued(3)
  /\ UNCHANGED <<storage, loads, auth, speech, clock, nops, last, launch, ocr, voice, faults>>

Mounted == loader.pc # "unmounted"

\* the dispatches loadData makes from `if (settingsData)` on: JSON.parse
\* throwing ends the function in its catch, the dispatches made before stay
LoadTail(l) ==
  LET settings ==
        IF l.settingsData.v # NULL /\ ~l.settingsData.bad
        THEN <<Partial("UPDATE_ACCESSIBILITY_SETTINGS", l.settingsData.v[1],
                       DOMAIN l.settingsData.v[1])>>
        ELSE <<>>
      setup ==
        IF l.setupData.v # NULL /\ ~l.setupData.bad /\ ~l.settingsData.bad
        THEN <<Partial("LOAD_DATA", [hasCompletedSetup |-> l.setupData.v[1]],
                       {"hasCompletedSetup"})>>
        ELSE <<>>
  IN settings \o setup

withJoinDate(u) == IF u.joinDate # Undefined THEN u ELSE [u EXCEPT !.joinDate = "now"]

LoadDataGetUser ==
  /\ loader.pc = "getUser"
  /\ Returns(loader.t)
  /\ loader' = [loader EXCEPT !.pc = "getSettings", !.t = Ticket(0),
                              !.userData = getItem(storage, "user")]
  /\ tick' = Issued(1)
  /\ UNCHANGED <<state, storage, loads, saves, auth, speech, clock, nops, last, launch, ocr, voice, faults>>

LoadDataGetSettings ==
  /\ loader.pc = "getSettings"
  /\ Returns(loader.t)
  /\ loader' = [loader EXCEPT !.pc = "getSetup", !.t = Ticket(0),
                              !.settingsData = getItem(storage, "accessibilitySettings")]
  /\ tick' = Issued(1)
  /\ UNCHANGED <<state, storage, loads, saves, auth, speech, clock, nops, last, launch, ocr, voice, faults>>

\* the third read returns; the function runs on to its next await or its end
LoadDataGetSetup ==
  /\ loader.pc = "getSetup"
  /\ Returns(loader.t)
  /\ LET l == [loader EXCEPT !.setupData = getItem(storage, "hasCompletedSetup")]
     IN IF l.userData.v = NULL
        THEN /\ loader' = [l EXCEPT !.pc = "done"]
             /\ Render(LoadTail(l))
        ELSE IF l.userData.bad
        THEN /\ loader' = [l EXCEPT !.pc = "done"]
             /\ UNCHANGED <<state, loads, saves, last, tick, faults>>
        ELSE IF l.userData.v[1].joinDate # Undefined
        THEN /\ loader' = [l EXCEPT !.pc = "done"]
             /\ Render(<<Action("LOGIN", l.userData.v[1])>> \o LoadTail(l))
        ELSE /\ loader' = [l EXCEPT !.pc = "setUser", !.t = Ticket(0)]
             /\ RenderAfter(<<Action("LOGIN", withJoinDate(l.userData.v[1]))>>, 1)
  /\ UNCHANGED <<storage, auth, speech, clock, nops, launch, ocr, voice, faults>>

\* await AsyncStorage.setItem('user', userWithJoinDate) returns
LoadDataSetUser ==
  /\ loader.pc = "setUser"
  /\ Returns(loader.t)
  /\ storage' = setItem(storage, "user", withJoinDate(loader.userData.v[1]))
  /\ loader' = [loader EXCEPT !.pc = "done"]
  /\ Render(LoadTail(loader))
  /\ UNCHANGED <<auth, speech, clock, nops, launch, ocr, voice, faults>>

\* ------------------------------------------------------------------ loadUserReminders

RemoveAt(s, i) == SubSeq(s, 1, i - 1) \o SubSeq(s, i + 1, Len(s))

\* getItem(`reminders_${id}`) of the i-th suspended run returns
LoadUserReminders(i) ==
  /\ i \in DOMAIN loads
  /\ Returns(loads[i].t)
  /\ LET data == storage.reminders[loads[i].id]
     IN /\ loads' = RemoveAt(loads, i)
        /\ LET a == Action("SET_REMINDERS", IF data # NULL THEN data[1] ELSE <<>>)
               s2 == appReducer(state, a)
           IN /\ state' = s2
              /\ last' = Label(state, a)
              /\ saves' = Append(saves, StartSave(s2, Ticket(0)))
              /\ tick' = Issued(1)
  /\ UNCHANGED <<storage, loader, auth, speech, clock, nops, launch, ocr, voice, faults>>

\* ------------------------------------------------------------------ saveData

\* { ...a, ...b } for two User objects: b's keys are the fields it defines
OptionalFields == {"joinDate", "profilePhoto"}
MergeUser(a, b) ==
  [f \in DOMAIN a |-> IF f \in OptionalFields /\ b[f] = Undefined THEN a[f] ELSE b[f]]

RECURSIVE findIndex(_, _, _)
\* users.findIndex(u => u.id === id), 1-based; 0 when none
findIndex(users, id, i) ==
  IF i > Len(users) THEN 0
  ELSE IF users[i].id = id THEN i
  ELSE findIndex(users, id, i + 1)

\* an upsert that would put the user in front without looking for its id
upsertUserInFront(users, u) == <<u>> \o users

\* the users directory with the current user upserted by id
upsertUser(users, u) ==
  LET idx == findIndex(users, u.id, 1)
  IN IF idx > 0 THEN [users EXCEPT ![idx] = MergeUser(users[idx], u)]
     ELSE <<u>> \o users

parseUsers(data) == IF data # NULL THEN data[1] ELSE <<>>

SaveStep(i) ==
  /\ i \in DOMAIN saves
  /\ Returns(saves[i].t)
  /\ tick' = Issued(1)
  /\ LET r == [saves[i] EXCEPT !.t = Ticket(0)]
         Go(pc) == [saves EXCEPT ![i] = [r EXCEPT !.pc = pc]]
     IN CASE r.pc = "setUser" ->
               /\ storage' = setItem(storage, "user", r.user[1])
               /\ saves' = Go("getUsers")
          [] r.pc = "getUsers" ->
               /\ storage' = storage
               /\ saves' = [saves EXCEPT ![i] =
                              [r EXCEPT !.pc = "setUsers",
                                 !.users = upsertUser(parseUsers(storage.users), r.user[1])]]
          [] r.pc = "setUsers" ->
               /\ storage' = setItem(storage, "users", r.users)
               /\ saves' = Go("setSettings")
          [] r.pc = "setSettings" ->
               /\ storage' = setItem(storage, "accessibilitySettings", r.accessibilitySettings)
               /\ saves' = Go("setSetup")
          [] r.pc = "setSetup" ->
               /\ storage' = setItem(storage, "hasCompletedSetup", r.hasCompletedSetup)
               /\ saves' = IF r.user # NULL
                           THEN Go("setReminders")
                           ELSE RemoveAt(saves, i)
          [] r.pc = "setReminders" ->
               /\ storage' = setReminders(storage, r.user[1].id, r.reminders)
               /\ saves' = RemoveAt(saves, i)
  /\ UNCHANGED <<state, loader, loads, auth, speech, clock, nops, last, launch, ocr, voice, faults>>

\* ---- storage calls that fail

\* a failure that the inner try of saveData would not take
afterFailureOuter(pc) == "done"

\* where saveData goes on when the call it awaits at pc rejects: the inner
\* try/catch takes a failure of the users directory update, the outer one
\* ends the run
afterFailure(pc) == IF pc \in {"getUsers", "setUsers"} THEN "setSettings" ELSE "done"

\* the storage call the i-th saveData run awaits rejects
SaveStepFails(i) ==
  /\ i \in DOMAIN saves
  /\ Returns(saves[i].t)
  /\ Len(faults) < MaxFaults
  /\ tick' = Issued(1)
  /\ saves' = IF afterFailure(saves[i].pc) = "done" THEN RemoveAt(saves, i)
              ELSE [saves EXCEPT ![i] = [@ EXCEPT !.pc = afterFailure(saves[i].pc),
                                                  !.t = Ticket(0)]]
  /\ faults' = Append(faults, [op |-> "saveData", pc |-> saves[i].pc, run |-> saves[i]])
  /\ UNCHANGED <<state, storage, loader, loads, auth, speech, clock, nops, last, launch, ocr, voice>>

\* getItem of the i-th loadUserReminders run rejects: the catch logs it
LoadUserRemindersFails(i) ==
  /\ i \in DOMAIN loads
  /\ Returns(loads[i].t)
  /\ Len(faults) < MaxFaults
  /\ loads' = RemoveAt(loads, i)
  /\ faults' = Append(faults, [op |-> "loadUserReminders", pc |-> "getItem",
                               run |-> StartSave(state, 0)])
  /\ UNCHANGED <<state, storage, loader, saves, auth, speech, clock, nops, tick, last, launch, ocr, voice>>

\* ------------------------------------------------------------------ speech

Max(a, b) == IF a > b THEN a ELSE b
Min(a, b) == IF a < b THEN a ELSE b

\* Math.max(0.5, Math.min(voiceSpeed, 2.0)), in tenths
safeRate(voiceSpeed) == Max(5, Min(voiceSpeed, 20))

\* speakText of a screen, called with the state `s` its closure holds
speakText(site, s) ==
  IF s.voiceAnnouncementsEnabled
  THEN [site |-> site, rate |-> safeRate(s.accessibilitySettings.voiceSpeed)]
  ELSE speech

\* ------------------------------------------------------------------ LoginScreen

Whitespace == {" "}
UpperCase == <<"A", "B", "C", "D", "E", "F", "G", "H", "I", "J", "K", "L", "M",
               "N", "O", "P", "Q", "R", "S", "T", "U", "V", "W", "X", "Y", "Z">>
LowerCase == <<"a", "b", "c", "d", "e", "f", "g", "h", "i", "j", "k", "l", "m",
               "n", "o", "p", "q", "r", "s", "t", "u", "v", "w", "x", "y", "z">>
lowerChar(c) ==
  IF \E i \in DOMAIN UpperCase : UpperCase[i] = c
  THEN LowerCase[CHOOSE i \in DOMAIN UpperCase : UpperCase[i] = c]
  ELSE c

toLowerCase(s) == [i \in DOMAIN s |-> lowerChar(s[i])]

RECURSIVE trimStart(_)
trimStart(s) ==
  IF Len(s) > 0 /\ Head(s) \in Whitespace THEN trimStart(Tail(s)) ELSE s

RECURSIVE trimEnd(_)
trimEnd(s) ==
  IF Len(s) > 0 /\ s[Len(s)] \in Whitespace THEN trimEnd(SubSeq(s, 1, Len(s) - 1)) ELSE s

trim(s) == trimEnd(trimStart(s))

\* email.toLowerCase().trim()
normalizeEmail(email) == trim(toLowerCase(email))

\* /^[^\s@]+@[^\s@]+\.[^\s@]+$/ : one @, no whitespace, something before the
\* @, and after it a dot with something on both sides
validateEmail(email) ==
  /\ \A i \in DOMAIN email : email[i] \notin Whitespace
  /\ Cardinality({i \in DOMAIN email : email[i] = "@"}) = 1
  /\ \E i \in DOMAIN email, j \in DOMAIN email :
       /\ email[i] = "@"
       /\ email[j] = "."
       /\ 1 < i
       /\ i + 1 < j
       /\ j < Len(email)

\* /^\d{4}$/
validatePin(pin) == Len(pin) = 4 /\ \A i \in DOMAIN pin : pin[i] \in 0..9

RECURSIVE findByEmail(_, _, _)
\* users.find(u => u.email === email): index of the first match, 0 when none
findByEmail(users, email, i) ==
  IF i > Len(users) THEN 0
  ELSE IF users[i].email = email THEN i
  ELSE findByEmail(users, email, i + 1)

\* users.some(u => u.email === email.toLowerCase().trim())
\* a duplicate test that would compare the email as typed
emailExistsAsTyped(users, email) == findByEmail(users, email, 1) > 0

emailExists(users, email) == findByEmail(users, normalizeEmail(email), 1) > 0

\* a PIN test that would compare the lengths only
pinMismatchByLength(found, pin) == Len(found.pin) # Len(pin)

\* found.pin !== pin
pinMismatch(found, pin) == found.pin # pin

LoginScreenShown ==
  Mounted /\ ~state.isLoggedIn /\ auth.pc = "idle" /\ nops < MaxOps

\* a handler of the login screen called with the form holding these fields
Called(kind, email, pin, name) ==
  [idleAuth EXCEPT !.kind = kind, !.email = email, !.pin = pin, !.name = name]

\* the handler returns: its locals are gone, the form keeps its fields
Finished(outcome) ==
  [Called(auth.kind, auth.email, auth.pin, auth.name) EXCEPT !.outcome = outcome]

\* handleLogin up to its first await
HandleLogin(email, pin) ==
  /\ LoginScreenShown
  /\ nops' = nops + 1
  /\ IF ~validateEmail(email) \/ ~validatePin(pin)
     THEN /\ auth' = [Called("login", email, pin, "") EXCEPT !.outcome = "invalid"]
          /\ speech' = speakText("login", state)
          /\ tick' = tick
     ELSE /\ auth' = [Called("login", email, pin, "") EXCEPT
                        !.pc = "loginGetUsers", !.closure = state, !.t = Ticket(0)]
          /\ speech' = speech
          /\ tick' = Issued(1)
  /\ UNCHANGED <<state, storage, loader, loads, saves, clock, last, launch, ocr, voice, faults>>

\* getItem('users') of handleLogin returns
HandleLoginGetUsers ==
  /\ auth.pc = "loginGetUsers"
  /\ Returns(auth.t)
  /\ LET users == parseUsers(storage.users)
         idx == findByEmail(users, normalizeEmail(auth.email), 1)
         found == users[idx]
         updatedUser == withJoinDate(found)
         Refresh(u) == IF u.email = updatedUser.email THEN updatedUser ELSE u
     IN IF idx = 0
        THEN /\ auth' = Finished("noAccount")
             /\ speech' = speakText("login", auth.closure)
             /\ UNCHANGED <<state, loads, saves, last, tick, faults>>
        ELSE IF pinMismatch(found, auth.pin)
        THEN /\ auth' = Finished("badPin")
             /\ speech' = speakText("login", auth.closure)
             /\ UNCHANGED <<state, loads, saves, last, tick, faults>>
        ELSE IF found.joinDate = Undefined
        THEN /\ auth' = [auth EXCEPT !.pc = "loginSetUsers", !.user = Some(updatedUser),
                                     !.users = SeqMap(users, Refresh), !.t = Ticket(0)]
             /\ tick' = Issued(1)
             /\ UNCHANGED <<state, loads, saves, speech, last, faults>>
        ELSE /\ auth' = Finished("loggedIn")
             /\ Render(<<Action("LOGIN", updatedUser)>>)
             /\ speech' = speakText("login", auth.closure)
  /\ UNCHANGED <<storage, loader, clock, nops, launch, ocr, voice, faults>>

\* setItem('users', refreshedUsers) of handleLogin returns
HandleLoginSetUsers ==
  /\ auth.pc = "loginSetUsers"
  /\ Returns(auth.t)
  /\ storage' = setItem(storage, "users", auth.users)
  /\ auth' = Finished("loggedIn")
  /\ Render(<<Action("LOGIN", auth.user[1])>>)
  /\ speech' = speakText("login", auth.closure)
  /\ UNCHANGED <<loader, clock, nops, launch, ocr, voice, faults>>

\* handleSignUp up to its first await
HandleSignUp(email, pin, name) ==
  /\ LoginScreenShown
  /\ clock <= MaxId
  /\ nops' = nops + 1
  /\ IF ~validateEmail(email) \/ ~validatePin(pin) \/ name = ""
     THEN /\ auth' = [Called("signup", email, pin, name) EXCEPT !.outcome = "invalid"]
          /\ speech' = speakText("login", state)
          /\ tick' = tick
     ELSE /\ auth' = [Called("signup", email, pin, name) EXCEPT
                        !.pc = "signupGetUsers", !.closure = state, !.t = Ticket(0)]
          /\ speech' = speech
          /\ tick' = Issued(1)
  /\ UNCHANGED <<state, storage, loader, loads, saves, clock, last, launch, ocr, voice, faults>>

\* getItem('users') of handleSignUp returns
HandleSignUpGetUsers ==
  /\ auth.pc = "signupGetUsers"
  /\ Returns(auth.t)
  /\ LET users == parseUsers(storage.users)
         newUser == User(clock, normalizeEmail(auth.email), auth.pin, auth.name, Undefined)
     IN IF emailExists(users, auth.email)
        THEN /\ auth' = Finished("emailInUse")
             /\ speech' = speakText("login", auth.closure)
             /\ UNCHANGED <<clock, tick, faults>>
        ELSE /\ auth' = [auth EXCEPT !.pc = "signupSetUsers", !.user = Some(newUser),
                                     !.users = <<newUser>> \o users, !.t = Ticket(0)]
             /\ speech' = speech
             /\ clock' = clock + 1
             /\ tick' = Issued(1)
  /\ UNCHANGED <<state, storage, loader, loads, saves, nops, last, launch, ocr, voice, faults>>

\* setItem('users', nextUsers) of handleSignUp returns
HandleSignUpSetUsers ==
  /\ auth.pc = "signupSetUsers"
  /\ Returns(auth.t)
  /\ storage' = setItem(storage, "users", auth.users)
  /\ auth' = Finished("created")
  /\ Render(<<Action("LOGIN", auth.user[1])>>)
  /\ speech' = speakText("login", auth.closure)
  /\ UNCHANGED <<loader, clock, nops, launch, ocr, voice, faults>>

\* ------------------------------------------------------------------ screens behind the login

\* the Main screens (home, profile, reminders) are shown to a logged-in user
MainShown == Mounted /\ state.isLoggedIn /\ state.user # NULL /\ nops < MaxOps

\* a logout that would also remove the key user
HandleLogoutRemovingUser ==
  /\ MainShown
  /\ nops' = nops + 1
  /\ Render(<<Action("LOGOUT", <<>>)>>)
  /\ speech' = speakText("profile", state)
  /\ storage' = [storage EXCEPT !.user = NULL]
  /\ UNCHANGED <<loader, auth, clock, launch, ocr, voice, faults>>

\* handleLogout, confirmed in its alert
HandleLogout ==
  /\ MainShown
  /\ nops' = nops + 1
  /\ Render(<<Action("LOGOUT", <<>>)>>)
  /\ speech' = speakText("profile", state)
  /\ UNCHANGED <<storage, loader, auth, clock, launch, ocr, voice, faults>>

\* handleProfilePicture with a picked image
HandleProfilePicture(uri) ==
  /\ MainShown
  /\ nops' = nops + 1
  /\ Render(<<Partial("UPDATE_USER", [profilePhoto |-> uri], {"profilePhoto"})>>)
  /\ speech' = speakText("profile", state)
  /\ UNCHANGED <<storage, loader, auth, clock, launch, ocr, voice, faults>>

\* handleSaveProfile with the form holding name and email: the payload is
\* { ...state.user, ...profileData }; an unset photo is '' in the form
HandleSaveProfile(name, email) ==
  /\ MainShown
  /\ nops' = nops + 1
  /\ IF name = ""
     THEN UNCHANGED <<state, loads, saves, last, tick, faults>>
     ELSE LET u == state.user[1]
              payload == [u EXCEPT !.name = name, !.email = email,
                            !.profilePhoto = IF @ = Undefined THEN "" ELSE @]
          IN Render(<<Partial("UPDATE_USER", payload, DOMAIN payload)>>)
  /\ speech' = speakText("profile", state)
  /\ UNCHANGED <<storage, loader, auth, clock, launch, ocr, voice, faults>>

\* handleAccessibilityChange(setting, value)
HandleAccessibilityChange(setting, value) ==
  /\ MainShown
  /\ nops' = nops + 1
  /\ Render(<<Partial("UPDATE_ACCESSIBILITY_SETTINGS",
                      [f \in {setting} |-> value], {setting})>>)
  /\ speech' = speakText("profile", state)
  /\ UNCHANGED <<storage, loader, auth, clock, launch, ocr, voice, faults>>

\* AccessibilitySetupScreen mounts: the welcome message
SetupScreenMount ==
  /\ MainShown
  /\ ~state.hasCompletedSetup
  /\ nops' = nops + 1
  /\ speech' = IF state.voiceAnnouncementsEnabled
               THEN [site |-> "setup", rate |-> state.accessibilitySettings.voiceSpeed]
               ELSE speech
  /\ UNCHANGED <<state, storage, loader, loads, saves, auth, clock, last, tick, launch, ocr, voice, faults>>

\* handleSaveSettings of the setup screen: two dispatches, one render
HandleSaveSettings(brightness, textZoom, voiceSpeed) ==
  /\ MainShown
  /\ ~state.hasCompletedSetup
  /\ nops' = nops + 1
  /\ Render(<<Partial("UPDATE_ACCESSIBILITY_SETTINGS",
                      [brightness |-> brightness, textZoom |-> textZoom,
                       voiceSpeed |-> voiceSpeed],
                      {"brightness", "textZoom", "voiceSpeed"}),
              Action("COMPLETE_SETUP", <<>>)>>)
  /\ UNCHANGED <<storage, loader, auth, speech, clock, launch, ocr, voice, faults>>

\* speakText of the home screen (welcome, navigation announcements)
HomeSpeakText ==
  /\ MainShown
  /\ nops' = nops + 1
  /\ speech' = speakText("home", state)
  /\ UNCHANGED <<state, storage, loader, loads, saves, auth, clock, last, tick, launch, ocr, voice, faults>>

\* toggleVoiceAnnouncements of the login screen
ToggleVoiceAnnouncements ==
  /\ LoginScreenShown
  /\ nops' = nops + 1
  /\ Render(<<Action("TOGGLE_VOICE_ANNOUNCEMENTS", ~state.voiceAnnouncementsEnabled)>>)
  /\ speech' = IF ~state.voiceAnnouncementsEnabled
               THEN [site |-> "login", rate |-> safeRate(state.accessibilitySettings.voiceSpeed)]
               ELSE speech
  /\ UNCHANGED <<storage, loader, auth, clock, launch, ocr, voice, faults>>

\* the reminder actions of the store's contract, dispatched for the user
\* that is logged in
DispatchAddReminder(id) ==
  /\ MainShown
  /\ id \notin ReminderIds(state.reminders)
  /\ nops' = nops + 1
  /\ Render(<<Action("ADD_REMINDER", Reminder(id, state.user[1].id, FALSE))>>)
  /\ UNCHANGED <<storage, loader, auth, speech, clock, launch, ocr, voice, faults>>

DispatchToggleReminder(id) ==
  /\ MainShown
  /\ nops' = nops + 1
  /\ Render(<<Action("TOGGLE_REMINDER", id)>>)
  /\ UNCHANGED <<storage, loader, auth, speech, clock, launch, ocr, voice, faults>>

DispatchDeleteReminder(id) ==
  /\ MainShown
  /\ nops' = nops + 1
  /\ Render(<<Action("DELETE_REMINDER", id)>>)
  /\ UNCHANGED <<storage, loader, auth, speech, clock, launch, ocr, voice, faults>>

\* ------------------------------------------------------------------ OCR preparation

\* the 1 MB limit: 1024 * 1024 bytes
OcrLimit == 1024 * 1024

\* length of the base64 text of n bytes, padding included
base64Length(n) == 4 * ((n + 2) \div 3)

noOcr == [site |-> "none", bytes |-> 0, length |-> 0]

Thrown == [thrown |-> TRUE, bytes |-> 0, length |-> 0]
Returned(n) == [thrown |-> FALSE, bytes |-> n, length |-> base64Length(n)]

\* a file as getInfoAsync describes it: size is the size it reports, absent
\* when it reports none; bytes is what readAsStringAsync will read
File(exists, isDirectory, size, bytes) ==
  [exists |-> exists, isDirectory |-> isDirectory, size |-> size, bytes |-> bytes]

\* fileToBase64(uri): the base64 text of the file, or a throw
fileToBase64(file) ==
  IF ~file.exists \/ file.isDirectory THEN Thrown
  ELSE IF file.size # NULL /\ file.size[1] # 0 /\ file.size[1] > OcrLimit THEN Thrown
  ELSE Returned(file.bytes)

\* prepareImageForOCR(asset), manipResult being what manipulateAsync made of
\* the asset: no base64, or the base64 of a JPEG of some size
prepareImageForOCR(manipResult) ==
  IF manipResult = NULL THEN Thrown
  ELSE LET length == base64Length(manipResult[1])
           estimatedSizeBytes == (length * 3) \div 4
       IN IF estimatedSizeBytes > OcrLimit THEN Thrown
          ELSE Returned(manipResult[1])

\* extractTextWithOCRSpace(base64, mimeType) posts the payload
extractTextWithOCRSpace(site, prepared) ==
  [site |-> site, bytes |-> prepared.bytes, length |-> prepared.length]

\* handleTakePicture / handleUploadImage with an asset picked
HandleUploadImage(manipResult) ==
  /\ MainShown
  /\ nops' = nops + 1
  /\ LET processedImage == prepareImageForOCR(manipResult)
     IN ocr' = IF processedImage.thrown THEN ocr
               ELSE extractTextWithOCRSpace("image", processedImage)
  /\ speech' = [site |-> "home", rate |-> 10]
  /\ UNCHANGED <<state, storage, loader, loads, saves, auth, clock, last, tick, launch, voice, faults>>

\* handleUploadFile with a file picked that is not a text file
HandleUploadFile(file) ==
  /\ MainShown
  /\ nops' = nops + 1
  /\ LET base64 == fileToBase64(file)
     IN ocr' = IF base64.thrown THEN ocr
               ELSE extractTextWithOCRSpace("file", base64)
  /\ speech' = [site |-> "home", rate |-> 10]
  /\ UNCHANGED <<state, storage, loader, loads, saves, auth, clock, last, tick, launch, voice, faults>>

\* ------------------------------------------------------------------ voiceManager

\* a keyword as the registry keys it: lowercased and trimmed
normalizeKeyword(k) == trim(toLowerCase(k))

VoiceCommand(keywords, action) == [keywords |-> keywords, action |-> action]

RECURSIVE keywordIndex(_, _, _)
\* the place of the entry of keyword k in the registry, 0 when it has none
keywordIndex(commands, k, i) ==
  IF i > Len(commands) THEN 0
  ELSE IF commands[i].keyword = k THEN i
  ELSE keywordIndex(commands, k, i + 1)

\* a registry that keeps the earlier entry of a keyword registered again
setKeywordAppending(commands, k, action) ==
  Append(commands, [keyword |-> normalizeKeyword(k), action |-> action])

\* the registry with keyword k mapped to action: an entry of k is overwritten
\* where it is, a new keyword is entered last
setKeyword(commands, k, action) ==
  LET idx == keywordIndex(commands, normalizeKeyword(k), 1)
      entry == [keyword |-> normalizeKeyword(k), action |-> action]
  IN IF idx > 0 THEN [commands EXCEPT ![idx] = entry]
     ELSE Append(commands, entry)

RECURSIVE addKeywords(_, _, _)
addKeywords(commands, keywords, action) ==
  IF Len(keywords) = 0 THEN commands
  ELSE addKeywords(setKeyword(commands, Head(keywords), action), Tail(keywords), action)

\* addCommand(cmd): cmd registered under every keyword of cmd.keywords
addCommand(commands, cmd) == addKeywords(commands, cmd.keywords, cmd.action)

\* removeCommand(keywords): the entries of the keywords deleted, no error
\* for a keyword that has none
removeCommand(commands, keywords) ==
  LET Kept(e) == \A i \in DOMAIN keywords : e.keyword # normalizeKeyword(keywords[i])
  IN SelectSeq(commands, Kept)

\* text t contains text k
Contains(t, k) ==
  \E i \in 0..(Len(t) - Len(k)) : SubSeq(t, i + 1, i + Len(k)) = k

\* the last entry, in the registry's order, whose keyword t contains
lastMatch(commands, t, i) ==
  LET M == {j \in i..Len(commands) : Contains(t, commands[j].keyword)}
  IN IF M = {} THEN 0 ELSE CHOOSE j \in M : \A k \in M : k <= j

RECURSIVE firstMatch(_, _, _)
\* the first entry, in the registry's order, whose keyword t contains
firstMatch(commands, t, i) ==
  IF i > Len(commands) THEN 0
  ELSE IF Contains(t, commands[i].keyword) THEN i
  ELSE firstMatch(commands, t, i + 1)

\* matchAndExecute looking for the keywords in the transcript as it was heard
matchAndExecuteAsHeard(commands, transcript) ==
  LET idx == firstMatch(commands, transcript, 1)
  IN IF idx > 0 THEN <<commands[idx].action>> ELSE <<>>

\* matchAndExecute(transcript): the actions it invokes, none or one
matchAndExecute(commands, transcript) ==
  LET idx == firstMatch(commands, normalizeKeyword(transcript), 1)
  IN IF idx > 0 THEN <<commands[idx].action>> ELSE <<>>

RECURSIVE addCommands(_, _)
addCommands(commands, cmds) ==
  IF Len(cmds) = 0 THEN commands
  ELSE addCommands(addCommand(commands, Head(cmds)), Tail(cmds))

RECURSIVE removeCommands(_, _)
removeCommands(commands, cmds) ==
  IF Len(cmds) = 0 THEN commands
  ELSE removeCommands(removeCommand(commands, Head(cmds).keywords), Tail(cmds))

\* ---- the commands of the home screen

ReadTextKeywords ==
  << <<"r", "e", "a", "d", " ", "t", "e", "x", "t">>,
     <<"s", "p", "e", "a", "k", " ", "t", "e", "x", "t">>,
     <<"r", "e", "a", "d", " ", "a", "l", "o", "u", "d">> >>

GoToProfileKeywords ==
  << <<"g", "o", " ", "t", "o", " ", "p", "r", "o", "f", "i", "l", "e">>,
     <<"p", "r", "o", "f", "i", "l", "e">>,
     <<"s", "e", "t", "t", "i", "n", "g", "s">> >>

GoToRemindersKeywords ==
  << <<"g", "o", " ", "t", "o", " ", "r", "e", "m", "i", "n", "d", "e", "r", "s">>,
     <<"r", "e", "m", "i", "n", "d", "e", "r", "s">>,
     <<"s", "h", "o", "w", " ", "r", "e", "m", "i", "n", "d", "e", "r", "s">> >>

HelpKeywords ==
  << <<"h", "e", "l", "p">>,
     <<"c", "o", "m", "m", "a", "n", "d", "s">>,
     <<"w", "h", "a", "t", " ", "c", "a", "n", " ", "I", " ", "s", "a", "y">> >>

EnableVoiceKeywords ==
  << <<"e", "n", "a", "b", "l", "e", " ", "v", "o", "i", "c", "e">>,
     <<"v", "o", "i", "c", "e", " ", "o", "n">>,
     <<"s", "t", "a", "r", "t", " ", "v", "o", "i", "c", "e">> >>

DisableVoiceKeywords ==
  << <<"d", "i", "s", "a", "b", "l", "e", " ", "v", "o", "i", "c", "e">>,
     <<"v", "o", "i", "c", "e", " ", "o", "f", "f">>,
     <<"s", "t", "o", "p", " ", "v", "o", "i", "c", "e">> >>

\* the commands the effect registers, in its order
HomeCommands ==
  << VoiceCommand(ReadTextKeywords, "readText"),
     VoiceCommand(GoToProfileKeywords, "goToProfile"),
     VoiceCommand(GoToRemindersKeywords, "goToReminders"),
     VoiceCommand(HelpKeywords, "help"),
     VoiceCommand(EnableVoiceKeywords, "enableVoice"),
     VoiceCommand(DisableVoiceKeywords, "disableVoice") >>

\* the effect of the home screen: the six removeCommand calls, then the six
\* addCommand calls
HomeSetup(commands) == addCommands(removeCommands(commands, HomeCommands), HomeCommands)

\* the cleanup of the effect
HomeCleanup(commands) == removeCommands(commands, HomeCommands)

\* ---- the commands of the profile screen

EditProfileKeywords ==
  << <<"e", "d", "i", "t", " ", "p", "r", "o", "f", "i", "l", "e">>,
     <<"e", "d", "i", "t", " ", "i", "n", "f", "o", "r", "m", "a", "t", "i", "o", "n">>,
     <<"u", "p", "d", "a", "t", "e", " ", "p", "r", "o", "f", "i", "l", "e">> >>

SaveProfileKeywords ==
  << <<"s", "a", "v", "e", " ", "p", "r", "o", "f", "i", "l", "e">>,
     <<"s", "a", "v", "e", " ", "c", "h", "a", "n", "g", "e", "s">>,
     <<"u", "p", "d", "a", "t", "e", " ", "i", "n", "f", "o", "r", "m", "a", "t", "i", "o", "n">> >>

LogoutKeywords ==
  << <<"l", "o", "g", "o", "u", "t">>,
     <<"s", "i", "g", "n", " ", "o", "u", "t">>,
     <<"l", "o", "g", " ", "o", "u", "t">> >>

ProfileCommands ==
  << VoiceCommand(EditProfileKeywords, "editProfile"),
     VoiceCommand(SaveProfileKeywords, "saveProfile"),
     VoiceCommand(LogoutKeywords, "logout") >>

setupVoiceCommands(commands) == addCommands(commands, ProfileCommands)

\* a cleanup that leaves the logout command registered
cleanupVoiceCommandsButLogout(commands) ==
  removeCommand(removeCommand(commands, EditProfileKeywords), SaveProfileKeywords)

cleanupVoiceCommands(commands) ==
  removeCommand(removeCommand(removeCommand(commands, EditProfileKeywords),
                              SaveProfileKeywords),
                LogoutKeywords)

\* ---- the screens and voiceManager

\* a screen of the logged-in user can mount, a call to voiceManager be made
VoiceShown == Mounted /\ state.isLoggedIn /\ state.user # NULL /\ voice.events < MaxVoice

Event(v, event) == [v EXCEPT !.event = event, !.events = @ + 1]

\* the effect of HomeScreen runs: commands registered, the screen announced
HomeMount ==
  /\ VoiceShown
  /\ ~voice.home
  /\ LET mounted == [Event(voice, "homeMount") EXCEPT
                        !.commands = HomeSetup(@), !.home = TRUE,
                        !.homeListening = FALSE, !.homeClosure = state,
                        !.ttsText = <<>>]
     IN voice' = [mounted EXCEPT !.ttsClosure = mounted.ttsText]
  /\ speech' = speakText("home", state)
  /\ UNCHANGED <<state, storage, loader, loads, saves, auth, clock, nops, last, tick, launch, ocr, faults>>

\* HomeScreen unmounts: the cleanup of its effect
HomeUnmount ==
  /\ voice.home
  /\ voice.events < MaxVoice
  /\ voice' = [Event(voice, "homeUnmount") EXCEPT !.commands = HomeCleanup(@), !.home = FALSE]
  /\ UNCHANGED <<state, storage, loader, loads, saves, auth, speech, clock, nops, last, tick, launch, ocr, faults>>

\* the effect of ProfileScreen runs for the first time
ProfileMount ==
  /\ VoiceShown
  /\ ~voice.profile
  /\ voice' = [Event(voice, "profileMount") EXCEPT
                 !.commands = setupVoiceCommands(@), !.profile = TRUE,
                 !.isEditingProfile = FALSE, !.profileClosure = state]
  /\ speech' = speakText("profile", state)
  /\ UNCHANGED <<state, storage, loader, loads, saves, auth, clock, nops, last, tick, launch, ocr, faults>>

\* isEditingProfile changed to e in the render of state s: the effect of
\* ProfileScreen runs again, its cleanup first
ProfileRerun(v, e, s) ==
  IF v.isEditingProfile = e THEN v
  ELSE [v EXCEPT !.commands = setupVoiceCommands(cleanupVoiceCommands(@)),
                 !.isEditingProfile = e, !.profileClosure = s]

\* the edit button of the profile screen
ProfileToggleEdit ==
  /\ voice.profile
  /\ voice.events < MaxVoice
  /\ voice' = ProfileRerun(Event(voice, "profileRerun"), ~voice.isEditingProfile, state)
  /\ speech' = speakText("profile", state)
  /\ UNCHANGED <<state, storage, loader, loads, saves, auth, clock, nops, last, tick, launch, ocr, faults>>

\* ProfileScreen unmounts: cleanupVoiceCommands
ProfileUnmount ==
  /\ voice.profile
  /\ voice.events < MaxVoice
  /\ voice' = [Event(voice, "profileUnmount") EXCEPT
                 !.commands = cleanupVoiceCommands(@), !.profile = FALSE]
  /\ UNCHANGED <<state, storage, loader, loads, saves, auth, speech, clock, nops, last, tick, launch, ocr, faults>>

\* onPress of the Voice Commands card of the home screen
VoiceCardPress ==
  /\ voice.home
  /\ voice.events < MaxVoice
  /\ voice' = [Event(voice, "cardPress") EXCEPT
                 !.homeListening = ~voice.homeListening,
                 !.isListening = ~voice.homeListening]
  /\ UNCHANGED <<state, storage, loader, loads, saves, auth, speech, clock, nops, last, tick, launch, ocr, faults>>

\* addCommand(cmd) called with a command of the caller's
AddCommand(cmd) ==
  /\ Mounted
  /\ voice.events < MaxVoice
  /\ LET Replaced(e) == \E i \in DOMAIN cmd.keywords :
                          e.keyword = normalizeKeyword(cmd.keywords[i])
         Actions(e) == e.action
     IN voice' = [Event(voice, "addCommand") EXCEPT
                    !.commands = addCommand(@, cmd),
                    !.added = <<cmd>>,
                    !.overwritten = SeqMap(SelectSeq(voice.commands, Replaced), Actions)]
  /\ UNCHANGED <<state, storage, loader, loads, saves, auth, speech, clock, nops, last, tick, launch, ocr, faults>>

\* a recogniser whose transcripts are matched whatever the listening flag
onTranscriptAlways(v, transcript) == matchAndExecute(v.commands, transcript)

\* a transcript arrives from the recogniser: ignored while not listening
onTranscript(v, transcript) ==
  IF v.isListening THEN matchAndExecute(v.commands, transcript) ELSE <<>>

\* profileData as the form holds it for user u: an unset photo is ''
FormPayload(u) == [u EXCEPT !.profilePhoto = IF @ = Undefined THEN "" ELSE @]

\* "Executing text-to-speech command." as words
ReadTextPrefix == <<"Executing", "text-to-speech", "command.">>

\* the action of the read text command: speakText of the sentence followed
\* by ttsText, both state and ttsText as the effect closed over them;
\* speakText returns without speaking when announcements are off
readText(v) ==
  IF v.homeClosure.voiceAnnouncementsEnabled
  THEN ReadTextPrefix \o v.ttsClosure
  ELSE v.spoken

\* onChangeText of the input field
EditText(words) ==
  /\ voice.home
  /\ voice.events < MaxVoice
  /\ voice' = [Event(voice, "editText") EXCEPT !.ttsText = words]
  /\ UNCHANGED <<state, storage, loader, loads, saves, auth, speech, clock, nops, last, tick, launch, ocr, faults>>

\* the action of a command runs, v being voiceManager after the match
Invoke(action, v) ==
  CASE action = "readText" ->
         /\ voice' = [v EXCEPT !.spoken = readText(v)]
         /\ speech' = speakText("home", v.homeClosure)
         /\ UNCHANGED <<state, loads, saves, last, tick, faults>>
    [] action \in {"goToProfile", "goToReminders", "help"} ->
         /\ voice' = [v EXCEPT !.homeListening = FALSE]
         /\ speech' = speakText("home", v.homeClosure)
         /\ UNCHANGED <<state, loads, saves, last, tick, faults>>
    [] action = "enableVoice" ->
         /\ voice' = [v EXCEPT !.homeListening = TRUE, !.isListening = TRUE]
         /\ speech' = speakText("home", v.homeClosure)
         /\ UNCHANGED <<state, loads, saves, last, tick, faults>>
    [] action = "disableVoice" ->
         /\ voice' = [v EXCEPT !.homeListening = FALSE, !.isListening = FALSE]
         /\ speech' = speakText("home", v.homeClosure)
         /\ UNCHANGED <<state, loads, saves, last, tick, faults>>
    [] action = "editProfile" ->
         /\ voice' = ProfileRerun(v, ~v.isEditingProfile, state)
         /\ speech' = speakText("profile", state)
         /\ UNCHANGED <<state, loads, saves, last, tick, faults>>
    [] action = "saveProfile" ->
         LET payload == FormPayload(v.profileClosure.user[1])
         IN /\ Render(<<Partial("UPDATE_USER", payload, DOMAIN payload)>>)
            /\ voice' = ProfileRerun(v, FALSE, state')
            /\ speech' = speakText("profile", IF v.isEditingProfile THEN state'
                                              ELSE v.profileClosure)
    [] OTHER ->
         /\ voice' = v
         /\ UNCHANGED <<state, loads, saves, last, tick, speech, faults>>

\* the recogniser delivers a transcript to voiceManager
Transcript(transcript) ==
  /\ Mounted
  /\ voice.recognition
  /\ voice.events < MaxVoice
  /\ LET invoked == onTranscript(voice, transcript)
         v == [Event(voice, "transcript") EXCEPT
                 !.heard = transcript, !.wasListening = voice.isListening,
                 !.invoked = invoked]
     IN Invoke(IF invoked = <<>> THEN "none" ELSE invoked[1], v)
  /\ UNCHANGED <<storage, loader, auth, clock, nops, launch, ocr, faults>>

\* ---- voice input of the home screen

\* handleVoiceInput without the check that the module was loaded
handleVoiceInputUnchecked(v) ==
  IF v.isVoiceInputMode THEN [v EXCEPT !.isVoiceInputMode = FALSE]
  ELSE [v EXCEPT !.isVoiceInputMode = TRUE, !.input = "permission"]

\* handleVoiceInput up to its first await
handleVoiceInput(v) ==
  IF v.isVoiceInputMode THEN [v EXCEPT !.isVoiceInputMode = FALSE]
  ELSE IF ~v.recognition THEN [v EXCEPT !.alert = "Feature Not Available"]
  ELSE [v EXCEPT !.isVoiceInputMode = TRUE, !.input = "permission"]

\* the microphone button of the home screen
HandleVoiceInput ==
  /\ voice.home
  /\ voice.events < MaxVoice
  /\ voice' = handleVoiceInput(Event(voice, "voiceInput"))
  /\ UNCHANGED <<state, storage, loader, loads, saves, auth, speech, clock, nops, last, tick, launch, ocr, faults>>

\* what requestPermissionsAsync and start come to: permission denied, the
\* recogniser started, or a throw, which the catch of handleVoiceInput takes;
\* a call on the module that was not loaded throws
Outcomes(v) == IF v.recognition THEN {"denied", "started", "threw"} ELSE {"threw"}

HandleVoiceInputSettle(outcome) ==
  /\ voice.input = "permission"
  /\ outcome \in Outcomes(voice)
  /\ voice' = CASE outcome = "denied" ->
                    [voice EXCEPT !.alert = "Permission Required",
                                  !.isVoiceInputMode = FALSE, !.input = "idle"]
                 [] outcome = "started" -> [voice EXCEPT !.input = "listening"]
                 [] OTHER -> [voice EXCEPT !.isVoiceInputMode = FALSE, !.input = "idle"]
  /\ UNCHANGED <<state, storage, loader, loads, saves, auth, speech, clock, nops, last, tick, launch, ocr, faults>>

\* the 'result' listener gets a final transcript
VoiceInputResult(words) ==
  /\ voice.input = "listening"
  /\ voice' = [voice EXCEPT !.ttsText = @ \o words,
                            !.isVoiceInputMode = FALSE, !.input = "idle"]
  /\ UNCHANGED <<state, storage, loader, loads, saves, auth, speech, clock, nops, last, tick, launch, ocr, faults>>

\* the 'error' listener
VoiceInputError ==
  /\ voice.input = "listening"
  /\ voice' = [voice EXCEPT !.isVoiceInputMode = FALSE, !.input = "idle"]
  /\ UNCHANGED <<state, storage, loader, loads, saves, auth, speech, clock, nops, last, tick, launch, ocr, faults>>

\* removeCommand(keywords) called with keywords of the caller's
RemoveCommand(keywords) ==
  /\ Mounted
  /\ voice.events < MaxVoice
  /\ voice' = [Event(voice, "removeCommand") EXCEPT
                 !.commands = removeCommand(@, keywords)]
  /\ UNCHANGED <<state, storage, loader, loads, saves, auth, speech, clock, nops, last, tick, launch, ocr, faults>>

\* a tap runs the action of a registered command directly
DirectInvoke(i) ==
  /\ Mounted
  /\ voice.events < MaxVoice
  /\ i \in DOMAIN voice.commands
  /\ Invoke(voice.commands[i].action,
            [Event(voice, "direct") EXCEPT !.invoked = <<voice.commands[i].action>>])
  /\ UNCHANGED <<storage, loader, auth, clock, nops, launch, ocr, faults>>

\* ------------------------------------------------------------------ specifications

\* storage and state once a first launch with no account has come to rest
restedLoader == [idleLoader EXCEPT !.pc = "done"]

restedStorage ==
  [emptyStorage EXCEPT
     !.users = Some(<<UserA, UserB>>),
     !.accessibilitySettings = Some(initialState.accessibilitySettings),
     !.hasCompletedSetup = Some(FALSE),
     !.reminders = [i \in Ids |-> IF i = 1 THEN Some(<<RemA>>)
                                  ELSE IF i = 2 THEN Some(<<RemB>>) ELSE NULL]]

SessionWith(st, ld, tk) ==
  /\ storage = st
  /\ loader = ld
  /\ loads = <<>>
  /\ saves = <<>>
  /\ auth = idleAuth
  /\ speech = noSpeech
  /\ clock = 3
  /\ nops = 0
  /\ tick = tk
  /\ last = noAction
  /\ launch = st
  /\ ocr = noOcr
  /\ voice = idleVoice
  /\ faults = <<>>

InitWith(st, ld, tk) ==
  /\ state = initialState
  /\ SessionWith(st, ld, tk)

\* a session: the app is up, two accounts exist, nobody is logged in
Init == InitWith(restedStorage, restedLoader, 0)

\* the same session over a storage that completes calls in the order issued
InitFifo == InitWith(restedStorage, restedLoader, 1)

Async ==
  \/ \E i \in 1..(2 * MaxOps) : LoadUserReminders(i)
  \/ \E i \in 1..(2 * MaxOps) : SaveStep(i)

Calm == Len(saves) < MaxSaves /\ Len(loads) < MaxLoads

Next ==
  \/ Calm /\ HandleLogin(EmailA, PinA)
  \/ Calm /\ HandleLogin(EmailB, PinB)
  \/ HandleLoginGetUsers
  \/ HandleLoginSetUsers
  \/ Calm /\ HandleLogout
  \/ Calm /\ DispatchAddReminder("r3")
  \/ Calm /\ HandleAccessibilityChange("isDarkMode", TRUE)
  \/ Async

\* the session, storage completing calls in any order
Spec == Init /\ [][Next]_vars

\* the session, storage completing calls in the order issued
SpecFifo == InitFifo /\ [][Next]_vars

\* ---- process start

\* settings and setup flag a previous session persisted
SavedSettings ==
  [brightness |-> 70, textZoom |-> 150, voiceSpeed |-> 15, isDarkMode |-> TRUE]

StartStorages ==
  {[restedStorage EXCEPT
      !.user = u, !.accessibilitySettings = s, !.hasCompletedSetup = f, !.malformed = m] :
     u \in {NULL, Some(UserA), Some(UserANoDate)},
     s \in {NULL, Some(SavedSettings)},
     f \in {NULL, Some(TRUE)},
     m \in {{}, {"user"}, {"accessibilitySettings"}, {"hasCompletedSetup"}}}

\* a key that holds malformed text holds text
WellFormed(st) == \A k \in st.malformed : st[k] # NULL

InitStart ==
  \E st \in StartStorages :
    /\ WellFormed(st)
    /\ InitWith(st, idleLoader, 1)

NextStart ==
  \/ Mount
  \/ LoadDataGetUser
  \/ LoadDataGetSettings
  \/ LoadDataGetSetup
  \/ LoadDataSetUser
  \/ Async

\* process start, storage completing calls in the order issued
SpecStart == InitStart /\ [][NextStart]_vars

\* ---- the reducer alone

\* dispatch(a) reduced, with no effect run
Dispatch(a) ==
  /\ nops < MaxDispatch
  /\ nops' = nops + 1
  /\ state' = appReducer(state, a)
  /\ last' = Label(state, a)
  /\ UNCHANGED <<storage, loader, loads, saves, auth, speech, clock, tick, launch, ocr, voice, faults>>

NextReducer ==
  \/ \E u \in {UserA, UserB} : Dispatch(Action("LOGIN", u))
  \/ Dispatch(Partial("UPDATE_USER", [name |-> "Zoe"], {"name"}))
  \/ Dispatch(Action("LOGOUT", <<>>))
  \/ Dispatch(Action("COMPLETE_SETUP", <<>>))
  \/ \E v \in {1, 50} :
       Dispatch(Partial("UPDATE_ACCESSIBILITY_SETTINGS", [voiceSpeed |-> v], {"voiceSpeed"}))
  \/ Dispatch(Partial("UPDATE_ACCESSIBILITY_SETTINGS", [brightness |-> 70], {"brightness"}))
  \/ Dispatch(Action("TOGGLE_VOICE", TRUE))
  \/ Dispatch(Action("TOGGLE_VOICE_ANNOUNCEMENTS", FALSE))
  \/ \E r \in {RemA, RemB} : Dispatch(Action("ADD_REMINDER", r))
  \/ \E id \in {"r1", "r9"} : Dispatch(Action("UPDATE_REMINDER", Reminder(id, 1, TRUE)))
  \/ \E id \in {"r1", "r9"} : Dispatch(Action("DELETE_REMINDER", id))
  \/ \E id \in {"r1", "r9"} : Dispatch(Action("TOGGLE_REMINDER", id))
  \/ Dispatch(Partial("LOAD_DATA", [hasCompletedSetup |-> TRUE], {"hasCompletedSetup"}))
  \/ Dispatch(Action("SET_REMINDERS", <<RemB, RemA>>))
  \/ Dispatch(Action("UNKNOWN", <<>>))

SpecReducer == Init /\ [][NextReducer]_vars

\* ---- the login screen

EmailInputs == {EmailA, EmailAUpper, EmailASpaced, EmailB, EmailNoAt, EmailC}
PinInputs == {PinA, PinB, PinShort}
NameInputs == {"Cy", ""}

NextAuth ==
  \/ \E e \in EmailInputs, p \in PinInputs : Calm /\ HandleLogin(e, p)
  \/ HandleLoginGetUsers
  \/ HandleLoginSetUsers
  \/ \E e \in EmailInputs, p \in PinInputs, n \in NameInputs : Calm /\ HandleSignUp(e, p, n)
  \/ HandleSignUpGetUsers
  \/ HandleSignUpSetUsers
  \/ Calm /\ HandleLogout
  \/ Async

SpecAuth == Init /\ [][NextAuth]_vars

\* ---- the speech call sites

\* a dispatch of UPDATE_ACCESSIBILITY_SETTINGS({voiceSpeed}) to the store
DispatchVoiceSpeed(v) ==
  /\ Mounted
  /\ nops < MaxOps
  /\ nops' = nops + 1
  /\ Render(<<Partial("UPDATE_ACCESSIBILITY_SETTINGS", [voiceSpeed |-> v], {"voiceSpeed"})>>)
  /\ UNCHANGED <<storage, loader, auth, speech, clock, launch, ocr, voice, faults>>

VoiceSpeeds == {1, 5, 20, 50}

NextSpeech ==
  \/ \E v \in VoiceSpeeds : Calm /\ DispatchVoiceSpeed(v)
  \/ Calm /\ HandleLogin(EmailA, PinA)
  \/ HandleLoginGetUsers
  \/ Calm /\ ToggleVoiceAnnouncements
  \/ SetupScreenMount
  \/ HomeSpeakText
  \/ \E v \in {5, 20} : Calm /\ HandleAccessibilityChange("voiceSpeed", v)
  \/ Async

SpecSpeech == InitFifo /\ [][NextSpeech]_vars

\* ---- the writers of the users directory

NextDirectory ==
  \/ Calm /\ HandleLogin(EmailB, PinB)
  \/ HandleLoginGetUsers
  \/ HandleLoginSetUsers
  \/ Calm /\ HandleSignUp(EmailC, PinA, "Cy")
  \/ HandleSignUpGetUsers
  \/ HandleSignUpSetUsers
  \/ Calm /\ HandleProfilePicture("p")
  \/ Calm /\ HandleLogout
  \/ Async

\* storage completing calls in any order
SpecDirectory == Init /\ [][NextDirectory]_vars

\* ---- the profile screen

NextProfile ==
  \/ Calm /\ HandleLogin(EmailA, PinA)
  \/ Calm /\ HandleLogin(EmailB, PinB)
  \/ HandleLoginGetUsers
  \/ HandleLoginSetUsers
  \/ Calm /\ HandleSignUp(EmailC, PinA, "Cy")
  \/ HandleSignUpGetUsers
  \/ HandleSignUpSetUsers
  \/ \E e \in {EmailB, EmailAUpper} : Calm /\ HandleSaveProfile("Zed", e)
  \/ Calm /\ HandleProfilePicture("p")
  \/ Calm /\ HandleLogout
  \/ Async

\* storage completing calls in the order issued
SpecProfileFifo == InitFifo /\ [][NextProfile]_vars

\* ---- the settings sliders of the profile screen

\* min and max of the TouchSlider of each setting (voice speed in tenths)
BrightnessSliderMin == 0
BrightnessSliderMax == 100
TextZoomSliderMin == 80
TextZoomSliderMax == 180
VoiceSpeedSliderMin == 5
VoiceSpeedSliderMax == 20

\* a slider's onValueChange with a value of its range: its ends and its middle
SliderValues(min, max) == {min, (min + max) \div 2, max}

NextSettings ==
  \/ Calm /\ HandleLogin(EmailA, PinA)
  \/ HandleLoginGetUsers
  \/ \E v \in SliderValues(BrightnessSliderMin, BrightnessSliderMax) :
       Calm /\ HandleAccessibilityChange("brightness", v)
  \/ \E v \in SliderValues(TextZoomSliderMin, TextZoomSliderMax) :
       Calm /\ HandleAccessibilityChange("textZoom", v)
  \/ \E v \in SliderValues(VoiceSpeedSliderMin, VoiceSpeedSliderMax) :
       Calm /\ HandleAccessibilityChange("voiceSpeed", v)
  \/ Calm /\ HandleLogout
  \/ Async

SpecSettings == InitFifo /\ [][NextSettings]_vars

\* ---- the camera reader

\* sizes around the limit, in bytes
Sizes == {0, 1, OcrLimit - 1, OcrLimit, OcrLimit + 1, 2 * OcrLimit}

\* files whose reported size is their size, or is missing
Files ==
  {File(TRUE, FALSE, s, n) : s \in {NULL} \cup {Some(k) : k \in Sizes}, n \in Sizes}
  \cup {File(FALSE, FALSE, NULL, 0), File(TRUE, TRUE, NULL, 0)}

KnownSize(file) == file.size = NULL \/ file.size = Some(file.bytes)

NextOcr ==
  \/ Calm /\ HandleLogin(EmailA, PinA)
  \/ HandleLoginGetUsers
  \/ \E manipResult \in {NULL} \cup {Some(n) : n \in Sizes} : HandleUploadImage(manipResult)
  \/ \E file \in Files : KnownSize(file) /\ HandleUploadFile(file)
  \/ Async

SpecOcr == InitFifo /\ [][NextOcr]_vars

\* ---- the voice commands

\* user 1 logged in, its reminders loaded, everything saved
loggedInState == Reduce(initialState, <<Action("LOGIN", UserA), Action("SET_REMINDERS", <<RemA>>)>>)

loggedInStorage == [restedStorage EXCEPT !.user = Some(UserA)]

InitLoggedIn ==
  /\ state = loggedInState
  /\ SessionWith(loggedInStorage, restedLoader, 1)

\* a command of a caller's own, its keyword written with a capital
TestKeywords == << <<"H", "e", "l", "l", "o">> >>

Transcripts ==
  { <<"p", "l", "e", "a", "s", "e", " ", "H", "E", "L", "P", " ", "m", "e">>,
    <<"s", "a", "y", " ", "H", "E", "L", "L", "O", " ", "n", "o", "w">>,
    <<"e", "d", "i", "t", " ", "p", "r", "o", "f", "i", "l", "e">>,
    <<"W", "h", "a", "t", " ", "c", "a", "n", " ", "I", " ", "s", "a", "y">>,
    <<"v", "o", "i", "c", "e", " ", "o", "f", "f">>,
    <<"s", "a", "v", "e", " ", "p", "r", "o", "f", "i", "l", "e">>,
    <<"g", "o", "o", "d", " ", "m", "o", "r", "n", "i", "n", "g">> }

NextVoice ==
  \/ HomeMount
  \/ HomeUnmount
  \/ ProfileMount
  \/ ProfileToggleEdit
  \/ ProfileUnmount
  \/ VoiceCardPress
  \/ \E a \in {"A", "B"} : AddCommand(VoiceCommand(TestKeywords, a))
  \/ \E transcript \in Transcripts : Transcript(transcript)
  \/ Async

SpecVoice == InitLoggedIn /\ [][NextVoice]_vars

\* ---- voice input, with and without the recognition module

InitVoiceInput ==
  /\ state = loggedInState
  /\ storage = loggedInStorage
  /\ loader = restedLoader
  /\ loads = <<>>
  /\ saves = <<>>
  /\ auth = idleAuth
  /\ speech = noSpeech
  /\ clock = 3
  /\ nops = 0
  /\ tick = 1
  /\ last = noAction
  /\ launch = loggedInStorage
  /\ ocr = noOcr
  /\ \E r \in BOOLEAN : voice = [idleVoice EXCEPT !.recognition = r]
  /\ faults = <<>>

NextVoiceInput ==
  \/ HomeMount
  \/ HomeUnmount
  \/ HandleVoiceInput
  \/ \E outcome \in {"denied", "started", "threw"} : HandleVoiceInputSettle(outcome)
  \/ VoiceInputResult(<<"hi">>)
  \/ VoiceInputError
  \/ VoiceCardPress
  \/ \E a \in {"A", "B"} : AddCommand(VoiceCommand(TestKeywords, a))
  \/ RemoveCommand(TestKeywords)
  \/ \E i \in 1..19 : DirectInvoke(i)

SpecVoiceInput == InitVoiceInput /\ [][NextVoiceInput]_vars

\* ---- a session over a storage whose calls can fail

Faults ==
  \/ \E i \in 1..(2 * MaxOps) : SaveStepFails(i)
  \/ \E i \in 1..(2 * MaxOps) : LoadUserRemindersFails(i)

NextFaulty ==
  \/ Calm /\ HandleLogin(EmailA, PinA)
  \/ HandleLoginGetUsers
  \/ Calm /\ DispatchAddReminder("r3")
  \/ Async
  \/ Faults

SpecFaulty == Init /\ [][NextFaulty]_vars

\* ---- a session, then the next process start

\* the process ends after a logout, with nothing in flight, and starts
\* again: memory is gone, storage is what the start finds; the new process
\* is followed through its start-up only
Restart ==
  /\ loads = <<>> /\ saves = <<>> /\ auth.pc = "idle" /\ loader.pc = "done"
  /\ state.user = NULL
  /\ launch.user = NULL
  /\ storage.user # NULL
  /\ state' = initialState
  /\ loader' = idleLoader
  /\ launch' = storage
  /\ last' = noAction
  /\ nops' = MaxOps
  /\ auth' = idleAuth
  /\ speech' = noSpeech
  /\ UNCHANGED <<storage, loads, saves, clock, tick, ocr, voice, faults>>

NextRelaunch ==
  \/ Calm /\ HandleLogin(EmailA, PinA)
  \/ Calm /\ HandleLogin(EmailB, PinB)
  \/ HandleLoginGetUsers
  \/ HandleLoginSetUsers
  \/ Calm /\ HandleProfilePicture("p")
  \/ Calm /\ HandleLogout
  \/ Async
  \/ Restart
  \/ Mount
  \/ LoadDataGetUser
  \/ LoadDataGetSettings
  \/ LoadDataGetSetup

SpecRelaunch == InitFifo /\ [][NextRelaunch]_vars

\* ---- the read text command of the home screen

ReadTextTranscripts ==
  { <<"p", "l", "e", "a", "s", "e", " ", "r", "e", "a", "d", " ", "a", "l", "o", "u", "d">>,
    <<"R", "e", "a", "d", " ", "t", "e", "x", "t">>,
    <<"g", "o", "o", "d", " ", "m", "o", "r", "n", "i", "n", "g">> }

FieldTexts == { <<"hello">>, <<"good", "day">>, <<>> }

NextReadText ==
  \/ HomeMount
  \/ HomeUnmount
  \/ VoiceCardPress
  \/ \E words \in FieldTexts : EditText(words)
  \/ \E transcript \in ReadTextTranscripts : Transcript(transcript)

SpecReadText == InitLoggedIn /\ [][NextReadText]_vars

\* ---- one user adds a reminder and changes the profile photo

NextEdit ==
  \/ Calm /\ HandleLogin(EmailA, PinA)
  \/ HandleLoginGetUsers
  \/ loads = <<>> /\ saves = <<>> /\ DispatchAddReminder("r3")
  \/ Calm /\ HandleProfilePicture("p")
  \/ Async

SpecEditFifo == InitFifo /\ [][NextEdit]_vars

\* ------------------------------------------------------------------ properties

OwnedBy(list, id) == \A i \in DOMAIN list : list[i].owner = id

\* C1: in every state the reminders in state.reminders are those of the user
\* in state.user, and the list is empty when state.user is null.
C1_RemindersScopedToUser ==
  IF state.user = NULL THEN state.reminders = <<>>
  ELSE OwnedBy(state.reminders, state.user[1].id)

\* no async function is suspended
Quiet ==
  /\ loads = <<>>
  /\ saves = <<>>
  /\ auth.pc = "idle"
  /\ loader.pc = "done"

\* C4: once every saveData run has completed, the keys accessibilitySettings
\* and hasCompletedSetup, and for a logged-in user the keys user and
\* reminders_<id>, hold the values of the state.
C4_StorageHoldsFinalState ==
  Quiet =>
    /\ storage.accessibilitySettings = Some(state.accessibilitySettings)
    /\ storage.hasCompletedSetup = Some(state.hasCompletedSetup)
    /\ state.user # NULL =>
         /\ storage.user = state.user
         /\ storage.reminders[state.user[1].id] = Some(state.reminders)

\* C5: once every pending loadUserReminders run has completed, the list in
\* the state was loaded for the current user: it is empty when there is no
\* user, and no load started for an earlier user has left its list in it.
C5_LoadsSettleOnCurrentUser ==
  loads = <<>> =>
    /\ state.user = NULL => Len(state.reminders) = 0
    /\ state.user # NULL => \A i \in DOMAIN state.reminders :
                              state.reminders[i].owner = state.user[1].id

\* C2: right after LOGOUT is reduced the store is exactly the initial state:
\* no user, not logged in, setup not completed, brightness 50, text zoom 100,
\* voice speed 1.0, light mode, voice off, announcements on, no reminders.
C2_LogoutIsInitialState ==
  last.type = "LOGOUT" =>
    state = [user |-> NULL,
             isLoggedIn |-> FALSE,
             hasCompletedSetup |-> FALSE,
             accessibilitySettings |->
               [brightness |-> 50, textZoom |-> 100, voiceSpeed |-> 10, isDarkMode |-> FALSE],
             isVoiceEnabled |-> FALSE,
             voiceAnnouncementsEnabled |-> TRUE,
             reminders |-> <<>>]

\* LOGOUT reduced from a logged-in state with changed settings, a changed
\* voice flag or setup flag, and reminders
C2_Witness ==
  /\ last.type = "LOGOUT"
  /\ last.prev.user # NULL
  /\ last.prev.isLoggedIn
  /\ last.prev.accessibilitySettings # initialState.accessibilitySettings
  /\ Len(last.prev.reminders) > 0
  /\ ( \/ last.prev.isVoiceEnabled
       \/ ~last.prev.voiceAnnouncementsEnabled
       \/ last.prev.hasCompletedSetup )

\* the settings, setup flag and user found in storage at process start
Launched(k) == launch[k] # NULL /\ k \notin launch.malformed

\* C3: once the start-up load and the mount-time saves have finished, the
\* settings S, the setup flag F and the user U that storage held at process
\* start are in the store, and storage still holds S and F.
C3_StartRehydrates ==
  (loader.pc = "done" /\ Quiet /\ launch.malformed = {}) =>
    /\ Launched("accessibilitySettings") =>
         /\ state.accessibilitySettings = launch.accessibilitySettings[1]
         /\ storage.accessibilitySettings = launch.accessibilitySettings
    /\ Launched("hasCompletedSetup") =>
         /\ state.hasCompletedSetup = launch.hasCompletedSetup[1]
         /\ storage.hasCompletedSetup = launch.hasCompletedSetup
    /\ Launched("user") =>
         /\ state.isLoggedIn
         /\ state.user = Some(withJoinDate(launch.user[1]))

\* C6: the rate handed to the speech engine is within [0.5, 2.0] at every
\* call site, whatever voiceSpeed the store holds.
C6_RateClamped ==
  speech.site # "none" => (speech.rate >= 5 /\ speech.rate <= 20)

\* C7: when one of the three keys held malformed text at process start, the
\* start-up load finishes, the slice of that key keeps its default, and the
\* slices of the other keys are loaded from what storage held.
C7_MalformedSliceIsolated ==
  (loader.pc = "done" /\ Quiet /\ launch.malformed # {}) =>
    /\ "user" \in launch.malformed => state.user = NULL
    /\ "accessibilitySettings" \in launch.malformed =>
         state.accessibilitySettings = initialState.accessibilitySettings
    /\ "hasCompletedSetup" \in launch.malformed => ~state.hasCompletedSetup
    /\ Launched("accessibilitySettings") =>
         state.accessibilitySettings = launch.accessibilitySettings[1]
    /\ Launched("hasCompletedSetup") =>
         state.hasCompletedSetup = launch.hasCompletedSetup[1]
    /\ Launched("user") => state.user = Some(withJoinDate(launch.user[1]))

\* the directory read now holds an entry with this email
Registered(email) == findByEmail(parseUsers(storage.users), email, 1) > 0

\* the step is handleSignUp's, before its write
SignUpStep ==
  /\ auth' # auth
  /\ auth'.kind = "signup"
  /\ auth.pc \in {"idle", "signupGetUsers"}

\* the step changes neither the store nor storage, and starts no effect
NothingChanges ==
  /\ state' = state
  /\ last' = last
  /\ storage' = storage
  /\ saves' = saves
  /\ loads' = loads

\* C8: a sign-up whose email, lowercased and trimmed, is already in the
\* directory is rejected: it never reaches its write of `users`, dispatches
\* nothing and leaves the store and storage as they were.
C8_DuplicateSignUpRejected ==
  [][(SignUpStep /\ Registered(normalizeEmail(auth'.email))) =>
       /\ NothingChanges
       /\ auth'.pc \in {"idle", "signupGetUsers"}
       /\ auth.pc = "signupGetUsers" => (auth'.pc = "idle" /\ auth'.outcome = "emailInUse")]_vars

\* a sign-up with the email of an account in other letter case was rejected
C8_Witness ==
  /\ auth.kind = "signup"
  /\ auth.outcome = "emailInUse"
  /\ auth.email = EmailAUpper
  /\ Registered(EmailA)

\* the step is handleLogin's, before its write
LoginStep ==
  /\ auth' # auth
  /\ auth'.kind = "login"
  /\ auth.pc \in {"idle", "loginGetUsers"}

\* the directory read now has no entry for the email, or one with another PIN
BadCredentials(email, pin) ==
  LET users == parseUsers(storage.users)
      idx == findByEmail(users, normalizeEmail(email), 1)
  IN idx = 0 \/ users[idx].pin # pin

\* C9: a login whose email is not in the directory, or whose PIN differs from
\* the stored one, dispatches nothing, writes nothing and leaves the session
\* as it was.
C9_FailedLoginChangesNothing ==
  [][(LoginStep /\ BadCredentials(auth'.email, auth'.pin)) =>
       /\ NothingChanges
       /\ auth'.pc \in {"idle", "loginGetUsers"}
       /\ auth.pc = "loginGetUsers" => (auth'.pc = "idle" /\ auth'.outcome \in {"noAccount", "badPin"})]_vars

\* a login with a registered email and another account's PIN was refused
C9_Witness ==
  /\ auth.kind = "login"
  /\ auth.outcome = "badPin"
  /\ Registered(normalizeEmail(auth.email))
  /\ ~state.isLoggedIn

\* C10: UPDATE_REMINDER with an id that no reminder of the list has leaves
\* the list as it was.
C10_UpdateAbsentIsNoop ==
  (last.type = "UPDATE_REMINDER" /\ ~last.hit) => state.reminders = last.prev.reminders

\* UPDATE_REMINDER for an absent id reduced over a list of two reminders
C10_Witness ==
  /\ last.type = "UPDATE_REMINDER"
  /\ ~last.hit
  /\ Len(last.prev.reminders) >= 2

\* no two entries of the directory have the same id
UniqueIds(users) ==
  \A i \in DOMAIN users, j \in DOMAIN users : users[i].id = users[j].id => i = j

\* entry e carries every field the persisted user u has
Carries(e, u) ==
  \A f \in DOMAIN u : (f \in OptionalFields /\ u[f] = Undefined) \/ e[f] = u[f]

\* new is old with u upserted by id: in place when old has the id, else in front
UpsertedById(old, new, u) ==
  IF \E k \in DOMAIN old : old[k].id = u.id
  THEN /\ Len(new) = Len(old)
       /\ \A k \in DOMAIN old :
            IF old[k].id = u.id THEN new[k].id = u.id /\ Carries(new[k], u)
            ELSE new[k] = old[k]
  ELSE new = <<u>> \o old

\* run i of saveData goes from one of its awaits to the next
SaveMoves(i, from, to) ==
  /\ i \in DOMAIN saves
  /\ i \in DOMAIN saves'
  /\ Len(saves') >= Len(saves)
  /\ saves[i].pc = from
  /\ saves'[i].pc = to

C12_DirectoryEmailsUnique ==
  LET users == parseUsers(storage.users)
  IN /\ \A i \in DOMAIN users : users[i].email = normalizeEmail(users[i].email)
     /\ \A i \in DOMAIN users, j \in DOMAIN users :
          users[i].email = users[j].email => i = j

\* C13: in every state brightness is in 0..100, textZoom in 100..200 and
\* voiceSpeed in 0.5..2.0.
C13_SettingsInRange ==
  /\ state.accessibilitySettings.brightness \in 0..100
  /\ state.accessibilitySettings.textZoom \in 100..200
  /\ state.accessibilitySettings.voiceSpeed \in 5..20

\* C14: in every state no two reminders of state.reminders have the same id.
C14_ReminderIdsUnique ==
  \A i \in DOMAIN state.reminders, j \in DOMAIN state.reminders :
    state.reminders[i].id = state.reminders[j].id => i = j

\* C15: the payload of every call of the OCR service is at most 1 MB: the
\* bytes it encodes, and so what the preparation functions returned.
C15_OcrPayloadWithinLimit ==
  ocr.site # "none" => ocr.bytes <= OcrLimit

\* ---- the voice commands

\* the step is a call to voiceManager of the given kind
VoiceStep(event) == voice'.events = voice.events + 1 /\ voice'.event = event

\* the entries of the registry whose keyword the transcript contains, case
\* and outer blanks of the transcript set aside
Matching(commands, transcript) ==
  {i \in DOMAIN commands : Contains(trim(toLowerCase(transcript)), commands[i].keyword)}

KeysOf(cmds) ==
  UNION {{trim(toLowerCase(cmds[c].keywords[j])) : j \in DOMAIN cmds[c].keywords} :
           c \in DOMAIN cmds}

Registers(commands, keys) == \E i \in DOMAIN commands : commands[i].keyword \in keys

\* C16: a command is registered under its keywords in lower case and
\* without outer blanks, however they were written, and a transcript that
\* contains, whatever its case, the keyword of one registered command and
\* of no other invokes that command's action, once and nothing else
C16_KeywordInvokesItsAction ==
  /\ [][/\ VoiceStep("addCommand") =>
            \A j \in DOMAIN voice'.added[1].keywords :
              \E i \in DOMAIN voice'.commands :
                voice'.commands[i] =
                  [keyword |-> trim(toLowerCase(voice'.added[1].keywords[j])),
                   action |-> voice'.added[1].action]
        /\ (VoiceStep("transcript") /\ voice.isListening) =>
            \A i \in Matching(voice.commands, voice'.heard) :
              Matching(voice.commands, voice'.heard) = {i}
                => voice'.invoked = <<voice.commands[i].action>>]_vars
  /\ [](\A i \in DOMAIN voice.commands :
          voice.commands[i].keyword = trim(toLowerCase(voice.commands[i].keyword)))

\* a command registered as 'Hello' was invoked by 'say HELLO now'
C16_Witness ==
  /\ voice.event = "transcript"
  /\ voice.wasListening
  /\ voice.heard = <<"s", "a", "y", " ", "H", "E", "L", "L", "O", " ", "n", "o", "w">>
  /\ voice.added # <<>>
  /\ voice.added[1].keywords = TestKeywords
  /\ voice.overwritten = <<>>
  /\ voice.invoked = <<voice.added[1].action>>

\* C17: the registry holds one entry per keyword; registering a keyword
\* again replaces its entry where it is, the other entries stay, and no
\* transcript invokes an action the registry no longer holds
C17_SecondRegistrationOverwrites ==
  /\ [][/\ VoiceStep("addCommand") =>
            \A j \in DOMAIN voice'.added[1].keywords :
              LET k == trim(toLowerCase(voice'.added[1].keywords[j]))
                  Old == {i \in DOMAIN voice.commands : voice.commands[i].keyword = k}
                  New == {i \in DOMAIN voice'.commands : voice'.commands[i].keyword = k}
              IN /\ Cardinality(New) = 1
                 /\ \A i \in New : voice'.commands[i].action = voice'.added[1].action
                 /\ Old # {} => /\ New = Old
                                /\ Len(voice'.commands) = Len(voice.commands)
                 /\ \A i \in DOMAIN voice.commands \ Old :
                      voice'.commands[i] = voice.commands[i]
        /\ VoiceStep("transcript") =>
            \A j \in DOMAIN voice'.invoked :
              \E i \in DOMAIN voice.commands :
                voice.commands[i].action = voice'.invoked[j]]_vars
  /\ [](\A i, j \in DOMAIN voice.commands :
          voice.commands[i].keyword = voice.commands[j].keyword => i = j)

\* 'hello' registered for A, then for B: the transcript invoked B
C17_Witness ==
  /\ voice.event = "transcript"
  /\ voice.wasListening
  /\ voice.overwritten = <<"A">>
  /\ voice.added[1].action = "B"
  /\ voice.invoked = <<"B">>

\* C18: a transcript invokes at most one action, that of the first entry in
\* the registry's order whose keyword it contains, and none when it
\* contains no registered keyword
C18_AtMostOneActionPerTranscript ==
  /\ [][(VoiceStep("transcript") /\ voice.isListening) =>
          LET M == Matching(voice.commands, voice'.heard)
          IN IF M = {} THEN voice'.invoked = <<>>
             ELSE voice'.invoked =
                    <<voice.commands[CHOOSE i \in M : \A j \in M : i <= j].action>>]_vars
  /\ [](Len(voice.invoked) <= 1)

\* 'edit profile' heard with the commands of both screens registered: one
\* action ran, the home screen's, whose keyword 'profile' was registered first
C18_Witness ==
  /\ voice.event = "transcript"
  /\ voice.wasListening
  /\ voice.heard = <<"e", "d", "i", "t", " ", "p", "r", "o", "f", "i", "l", "e">>
  /\ Cardinality(Matching(voice.commands, voice.heard)) = 2
  /\ voice.invoked = <<"goToProfile">>

\* C19: a transcript that arrives while voiceManager is not listening
\* invokes no action: nothing is spoken, dispatched or registered
C19_NotListeningInvokesNothing ==
  [][(VoiceStep("transcript") /\ ~voice.isListening) =>
       /\ voice'.invoked = <<>>
       /\ voice'.commands = voice.commands
       /\ voice'.isListening = voice.isListening
       /\ voice'.homeListening = voice.homeListening
       /\ voice'.isEditingProfile = voice.isEditingProfile
       /\ UNCHANGED <<state, storage, saves, loads, speech, faults>>]_vars

\* a transcript with a registered keyword arrived while not listening
C19_Witness ==
  /\ voice.event = "transcript"
  /\ ~voice.wasListening
  /\ Matching(voice.commands, voice.heard) # {}
  /\ voice.invoked = <<>>

\* C20: no keyword of a screen that is not mounted is registered, whatever
\* mounts, re-runs of the profile effect and unmounts went before; the
\* removeCommand calls that open the home effect, made for keywords that
\* are not registered, leave the registry as it was
C20_CommandsScopedToScreen ==
  /\ [][VoiceStep("homeMount") =>
          SubSeq(voice'.commands, 1, Len(voice.commands)) = voice.commands]_vars
  /\ [](/\ ~voice.home => ~Registers(voice.commands, KeysOf(HomeCommands))
        /\ ~voice.profile => ~Registers(voice.commands, KeysOf(ProfileCommands)))

\* the profile screen was mounted, its effect re-run and the screen
\* unmounted while the home screen and a caller's command stayed registered
C20_Witness ==
  /\ voice.event = "profileUnmount"
  /\ voice.isEditingProfile
  /\ voice.home
  /\ Len(voice.commands) = 19

\* C21: without the recognition module, the microphone button raises the
\* 'Feature Not Available' alert and leaves the registry alone, voice
\* input mode is never on and no recogniser call is pending; commands are
\* still registered under their keywords and removed, and a registered
\* action run directly is the one invoked
C21_NoRecognitionReported ==
  /\ [][~voice.recognition =>
          /\ VoiceStep("voiceInput") =>
               /\ voice'.alert = "Feature Not Available"
               /\ voice'.commands = voice.commands
          /\ VoiceStep("addCommand") =>
               \A j \in DOMAIN voice'.added[1].keywords :
                 \E i \in DOMAIN voice'.commands :
                   /\ Contains(<<"h", "e", "l", "l", "o">>, voice'.commands[i].keyword)
                   /\ voice'.commands[i].action = voice'.added[1].action
          /\ VoiceStep("removeCommand") =>
               /\ ~Registers(voice'.commands, KeysOf(<<VoiceCommand(TestKeywords, "A")>>))
               /\ Len(voice'.commands) >= Len(voice.commands) - 1
          /\ VoiceStep("direct") =>
               \E i \in DOMAIN voice.commands :
                 voice'.invoked = <<voice.commands[i].action>>]_vars
  /\ [](~voice.recognition => ~voice.isVoiceInputMode /\ voice.input = "idle")

\* without the module: the alert was raised, and afterwards a command was
\* registered and its action run directly
C21_Witness ==
  /\ ~voice.recognition
  /\ voice.alert = "Feature Not Available"
  /\ ~voice.isVoiceInputMode
  /\ voice.event = "direct"
  /\ voice.added # <<>>
  /\ voice.invoked = <<voice.added[1].action>>

\* C22: a storage call that fails changes neither the state nor the
\* storage; a failure of the users directory update leaves its saveData run
\* in place, about to write accessibilitySettings, hasCompletedSetup and the
\* reminders it started with; and whatever failed or is still pending, a
\* reminder action can be dispatched on a screen of the logged-in user
C22_PersistenceIsFireAndForget ==
  /\ [][faults' # faults =>
          /\ state' = state
          /\ storage' = storage
          /\ last' = last
          /\ LET f == faults'[Len(faults')]
             IN (f.op = "saveData" /\ f.pc \in {"getUsers", "setUsers"}) =>
                  /\ Len(saves') = Len(saves)
                  /\ \E i \in DOMAIN saves' :
                       /\ saves'[i].pc = "setSettings"
                       /\ saves'[i].user = f.run.user
                       /\ saves'[i].accessibilitySettings = f.run.accessibilitySettings
                       /\ saves'[i].hasCompletedSetup = f.run.hasCompletedSetup
                       /\ saves'[i].reminders = f.run.reminders]_vars
  /\ []((MainShown /\ Calm) => ENABLED DispatchToggleReminder("r1"))

\* the users directory update of a run failed; later a reminder was added,
\* and once all runs have ended the storage holds the settings, the flag
\* and the reminders of the state
C22_Witness ==
  /\ faults # <<>>
  /\ faults[1].op = "saveData"
  /\ faults[1].pc = "setUsers"
  /\ faults[1].run.reminders # state.reminders
  /\ last.type = "ADD_REMINDER"
  /\ Quiet
  /\ state.user # NULL
  /\ storage.accessibilitySettings = Some(state.accessibilitySettings)
  /\ storage.hasCompletedSetup = Some(state.hasCompletedSetup)
  /\ storage.reminders[state.user[1].id] = Some(state.reminders)

\* the fields of the state outside fs are as before the last action
Frame(fs) == \A f \in DOMAIN state \ fs : state[f] = last.prev[f]

\* C23: an action other than LOGOUT and LOAD_DATA changes only the fields
\* of its contract: LOGIN user and isLoggedIn, UPDATE_USER user (nothing
\* when there is no user), COMPLETE_SETUP hasCompletedSetup,
\* UPDATE_ACCESSIBILITY_SETTINGS the settings named in its payload, the
\* two toggles their flag, the reminder actions and SET_REMINDERS the
\* reminders; an unknown action changes nothing
C23_ActionsChangeOnlyTheirFields ==
  CASE last.type = "LOGIN" -> Frame({"user", "isLoggedIn"})
    [] last.type = "UPDATE_USER" ->
         /\ Frame({"user"})
         /\ last.prev.user = NULL => state = last.prev
    [] last.type = "COMPLETE_SETUP" -> Frame({"hasCompletedSetup"})
    [] last.type = "UPDATE_ACCESSIBILITY_SETTINGS" ->
         /\ Frame({"accessibilitySettings"})
         /\ \A f \in DOMAIN state.accessibilitySettings \ last.action.fields :
              state.accessibilitySettings[f] = last.prev.accessibilitySettings[f]
    [] last.type = "TOGGLE_VOICE" -> Frame({"isVoiceEnabled"})
    [] last.type = "TOGGLE_VOICE_ANNOUNCEMENTS" -> Frame({"voiceAnnouncementsEnabled"})
    [] last.type \in {"ADD_REMINDER", "UPDATE_REMINDER", "DELETE_REMINDER",
                      "TOGGLE_REMINDER", "SET_REMINDERS"} -> Frame({"reminders"})
    [] last.type \in {"LOGOUT", "LOAD_DATA", "none"} -> TRUE
    [] OTHER -> state = last.prev

\* a second LOGIN, dispatched over a state with reminders, changed settings
\* and flags, replaced the user and kept the rest
C23_Witness ==
  /\ last.type = "LOGIN"
  /\ last.prev.user # NULL
  /\ state.user # last.prev.user
  /\ Len(state.reminders) > 0
  /\ state.accessibilitySettings # initialState.accessibilitySettings
  /\ state.hasCompletedSetup

\* C24: TOGGLE_REMINDER(id) keeps the length and order of the list, negates
\* isCompleted of the reminder with that id and leaves its other fields and
\* every other reminder as they were, changes nothing when no reminder has
\* the id, and dispatched once more gives back the list from before
C24_ToggleFlipsOneReminder ==
  last.type = "TOGGLE_REMINDER" =>
    /\ Len(state.reminders) = Len(last.prev.reminders)
    /\ \A i \in DOMAIN state.reminders :
         IF last.prev.reminders[i].id = last.action.payload
         THEN state.reminders[i] =
                [last.prev.reminders[i] EXCEPT !.isCompleted = ~last.prev.reminders[i].isCompleted]
         ELSE state.reminders[i] = last.prev.reminders[i]
    /\ ~last.hit => state.reminders = last.prev.reminders
    /\ appReducer(state, last.action).reminders = last.prev.reminders

\* a completed reminder of a list of two was toggled
C24_Witness ==
  /\ last.type = "TOGGLE_REMINDER"
  /\ last.hit
  /\ Len(state.reminders) >= 2
  /\ \E i, j \in DOMAIN state.reminders :
       /\ last.prev.reminders[i].id = last.action.payload
       /\ last.prev.reminders[i].isCompleted
       /\ last.prev.reminders[j].id # last.action.payload

\* C25: in a session of logins, logouts and profile changes, where no
\* reminder is added, changed or deleted, the key reminders_<id> of every
\* user holds at all times the list it held when the session began, a list
\* of reminders of that user
C25_ReminderKeysKeepTheirLists ==
  \A id \in Ids :
    launch.reminders[id] # NULL =>
      /\ storage.reminders[id] = launch.reminders[id]
      /\ \A i \in DOMAIN storage.reminders[id][1] : storage.reminders[id][1][i].owner = id

\* C26: no step of a logged-out session takes the key user away; with
\* LOGOUT the last action and nothing in flight the key holds the user that
\* was logged in; and a process that starts over that storage is, once
\* loadData has ended, logged in as that user
C26_LogoutKeepsUserKey ==
  /\ [][storage.user # NULL => storage'.user # NULL]_vars
  /\ []((Quiet /\ last.type = "LOGOUT" /\ last.prev.user # NULL) =>
          storage.user = last.prev.user)
  /\ []((launch.user # NULL /\ loader.pc = "done") =>
          /\ state.isLoggedIn
          /\ state.user = launch.user)

\* a process started after a logout is logged in again, no login handler
\* having run in it
C26_Witness ==
  /\ launch.user # NULL
  /\ loader.pc = "done"
  /\ auth.pc = "idle"
  /\ auth.kind = "none"
  /\ state.isLoggedIn
  /\ state.user = launch.user

\* C27: in a session of one user in which no reminder is deleted and the
\* user neither logs out nor changes, the reminder r3 added with ADD_REMINDER
\* stays in state.reminders, whatever profile changes follow and in whatever
\* order the pending save and the reload complete, and with nothing in
\* flight it is in reminders_<user.id>
C27_AddedReminderStays ==
  /\ [][("r3" \in ReminderIds(state.reminders)) =>
          ("r3" \in ReminderIds(state'.reminders))]_vars
  /\ []((Quiet /\ "r3" \in ReminderIds(state.reminders)) =>
          /\ storage.reminders[1] # NULL
          /\ "r3" \in ReminderIds(storage.reminders[1][1]))

\* C28: in every state reached through the actions the code dispatches,
\* isLoggedIn is true exactly when user is not null
C28_LoggedInIffUser == state.isLoggedIn <=> (state.user # NULL)

\* a LOGOUT dispatched on a logged-in state has been reduced
C28_Witness ==
  /\ last.type = "LOGOUT"
  /\ last.prev.isLoggedIn
  /\ last.prev.user # NULL
  /\ state.user = NULL
  /\ ~state.isLoggedIn

\* C29: in a logged-out state, once the saveData runs started with the
\* logged-out state have completed, the keys accessibilitySettings and
\* hasCompletedSetup hold the factory defaults and false
C29_LogoutResetsStoredSettings ==
  (state.user = NULL /\ \A i \in 1..Len(saves) : saves[i].user # NULL) =>
    /\ storage.accessibilitySettings = Some(initialState.accessibilitySettings)
    /\ storage.hasCompletedSetup = Some(FALSE)

\* C30: when the read text command has just been executed, the text spoken
\* is the sentence followed by the content the input field has at that time
C30_ReadTextSpeaksTheField ==
  (voice.event = "transcript" /\ voice.invoked = <<"readText">>
     /\ voice.homeClosure.voiceAnnouncementsEnabled) =>
    voice.spoken = ReadTextPrefix \o voice.ttsText

====
